---- MODULE Spec2Model ----
(***************************************************************************)
(* A model of korean-radio-spotify: the catalog resolver                   *)
(* (app/spotify_client.py), the source adapters (app/radio_scraper.py) and *)
(* the song cache with its writers (app/jobs.py, app/blueprints/api.py,    *)
(* app/models.py).                                                         *)
(*                                                                         *)
(* Text.  A Python string is modelled as a sequence of tokens; the string  *)
(* it stands for is the tokens joined by single spaces.  Every token       *)
(* stands for one lexical class the regular expressions of the code tell   *)
(* apart (a Latin word, a Hangul word, a bracketed request code, ...).     *)
(* The token BLANK stands for whitespace left behind by a substitution.    *)
(***************************************************************************)
EXTENDS Integers, Sequences, FiniteSets, TLC

VARIABLES
    \* ---- search_spotify_track (one call) ----
    title,            \* argument: raw title
    artist,           \* argument: raw artist ("" is <<>>)
    cleaned_title,    \* local
    composer,         \* local; Python None is NoComposer
    cleaned_artist,   \* local
    searchPc,         \* position inside search_spotify_track
    searchCalls,      \* the sp.search calls issued so far, in order
    searchAnswer,     \* what the last sp.search call answered
    searchResult,     \* the value returned (NoTrack is Python None)
    \* ---- fetch_songs (one call) ----
    program,          \* argument: the program dict
    date_str,         \* argument: the date string
    fetchPc,          \* position inside fetch_songs / the adapter
    page,             \* fetch_mbc_songs: loop variable of the listing pages
    seq_id,           \* fetch_mbc_songs: the matched row's seqID
    post,             \* fetch_kbs_board_songs: the selected post
    requests,         \* the HTTP requests issued so far, in order
    response,         \* the response to the last request
    fetchResult,      \* what fetch_songs returned or raised
    \* ---- the song cache and its writers ----
    clock,            \* the current date (date.today()), a day of the calendar
    song_cache,       \* the committed rows of table song_cache
    next_id,          \* the next value of the primary key song_cache.id
    wpc,              \* per handler: its position
    wprog,            \* per handler: the program it is processing
    wtoday,           \* per handler: the date it read as today (target_date)
    wsongs,           \* per handler: the list the adapter returned
    wpending,         \* per handler: the uncommitted changes of its db.session
    wfetched,         \* per handler: the day the adapter took as its default date
    returned,         \* the last return of a handler: who, what, and whether the
                      \* call had invoked the source adapter
    lastWrite,        \* history: per key, the list of the write issued last
    \* ---- daily_create_playlists (one run) ----
    follows,          \* per user: the program codes of the user's UserProgram rows
    client_ok,        \* per user: whether _get_user_spotify_client returns
    jobPc,            \* position inside daily_create_playlists
    jobUser,          \* index of the user of the loop at jobs.py 57
    jobProg,          \* index of the user_program of the loop at jobs.py 109
    session,          \* db.session: "active", or "inactive" after a failed flush
    attempts,         \* the calls of _create_playlist_for_program so far, in order
    fatal,            \* whether the handler at jobs.py 71 was entered
    \* ---- _parse_kbs_board_songs (one call) ----
    post_lines,       \* argument: the lines of the post
    parsePc,          \* "start" before the call, "done" after it
    parsed,           \* the list returned
    \* ---- playlist creation for one (user, program, today) ----
    user_playlists,   \* the committed rows of table user_playlists for the triple
    sp_playlists,     \* the names of the user's Spotify playlists, in listing order
    added_items,      \* per run: the successful playlist_add_items calls it made
    effects,          \* the calls made so far, as pairs of run and kind
    playPc,           \* per run: its position in _create_playlist_for_program
    local             \* per run: its local variables

searchVars == <<title, artist, cleaned_title, composer, cleaned_artist,
                searchPc, searchCalls, searchAnswer, searchResult>>
fetchVars  == <<program, date_str, fetchPc, page, seq_id, post, requests, response,
                fetchResult>>
cacheVars  == <<clock, song_cache, next_id, wpc, wprog, wtoday, wsongs, wpending,
                wfetched, returned, lastWrite>>
jobVars    == <<follows, client_ok, jobPc, jobUser, jobProg, session, attempts, fatal>>
parseVars  == <<post_lines, parsePc, parsed>>
playVars   == <<user_playlists, sp_playlists, added_items, effects, playPc, local>>
vars == <<searchVars, fetchVars, cacheVars, jobVars, parseVars, playVars>>

(***************************************************************************)
(* Bounds of the model.                                                    *)
(***************************************************************************)
MaxTitleLen  == 4     \* tokens in a raw title
MaxArtistLen == 2     \* tokens in a raw artist
MaxItems     == 2     \* tracks in one search response
MaxDay       == 3     \* days of the calendar the clock runs through
MaxRows      == 2     \* rows, items or posts in one upstream response
MaxBodyLines == 3     \* lines of one bulletin-board post
MaxPrograms  == 2     \* programs of the PROGRAMS configuration
MaxClock     == 2     \* days the clock of the cache runs through
MaxRunning   == 2     \* handlers in flight at a time
MaxRowId     == 2     \* primary keys the song_cache table hands out
MaxUsers     == 2     \* active users of one run of the daily job
MaxFollows   == 2     \* programs one user follows
MaxPostLines == 4     \* lines of the post body handed to the board parser
MaxSongs     == 2     \* songs of the list one playlist is built from
MaxPlaylists == 2     \* Spotify playlists the user has before the runs
PageSize     == 1     \* playlists on one listing page (limit=50 in the source)

(***************************************************************************)
(* Token sequences.                                                        *)
(***************************************************************************)
BLANK == " "

SeqsUpTo(S, n) == UNION {[1..k -> S] : k \in 0..n}

RECURSIVE LStrip(_)
LStrip(s) == IF s # <<>> /\ Head(s) = BLANK THEN LStrip(Tail(s)) ELSE s

RECURSIVE RStrip(_)
RStrip(s) == IF s # <<>> /\ s[Len(s)] = BLANK THEN RStrip(SubSeq(s, 1, Len(s) - 1)) ELSE s

\* str.strip()
Strip(s) == RStrip(LStrip(s))

RECURSIVE Filter(_, _)
Filter(s, Drop) ==
    IF s = <<>> THEN <<>>
    ELSE IF Head(s) \in Drop THEN Filter(Tail(s), Drop)
    ELSE <<Head(s)>> \o Filter(Tail(s), Drop)

RECURSIVE Replace(_, _, _)
Replace(s, From, to) ==
    IF s = <<>> THEN <<>>
    ELSE <<IF Head(s) \in From THEN to ELSE Head(s)>> \o Replace(Tail(s), From, to)

\* the least index of s satisfying the predicate given as a set of indices, 0 if none
FirstIn(I) == IF I = {} THEN 0 ELSE CHOOSE i \in I : \A j \in I : i <= j

Before(s, i) == SubSeq(s, 1, i - 1)
After(s, i)  == SubSeq(s, i + 1, Len(s))

Has(s, Class) == \E i \in 1..Len(s) : s[i] \in Class

\* index of the first token at or after i that is not BLANK, 0 if none
NextNonBlank(s, i) == FirstIn({j \in i..Len(s) : s[j] # BLANK})
(***************************************************************************)
(* clean_artist_name (spotify_client.py 29-68).                            *)
(* Artist tokens: "pf:" an instrument marker named by both the prefix list *)
(* (line 50-54) and the secondary-performer list (line 60); "fl:" a marker *)
(* named by the prefix list only; "Kim" a Latin word; "#gim" a Hangul word;  *)
(* "," ; "(live)" a parenthesised annotation; "feat" ; "of".  A token     *)
(* written with "#" stands for Hangul text.                                *)
(***************************************************************************)
InstPrefix    == {"pf:", "fl:"}
InstSecondary == {"pf:"}
ArtistParen   == {"(live)"}
ArtistLatin   == {"Kim", "pf:", "fl:", "feat", "of", "(live)"}   \* tokens matching [A-Za-z]
ArtistKorean  == {"#gim"}                                          \* tokens matching a Hangul syllable

\* re.split(r"\s+<word>\s+", s)[0]: the word splits only with whitespace on both sides
SplitAtWord(s, w) ==
    LET i == FirstIn({k \in 2..(Len(s) - 1) : s[k] = w})
    IN  IF i = 0 THEN s ELSE RStrip(Before(s, i))

\* the element of a one-element set; a chain of steps is written as nested
\* {Step(x) : x \in ...} so that each step is applied once to the value before it
The(S) == CHOOSE x \in S : TRUE

\* line 49-58: instrument/role prefix at the start, with the whitespace after it
ArtistStep1(a) == IF a # <<>> /\ Head(a) \in InstPrefix THEN LStrip(Tail(a)) ELSE a
\* line 60: cut at ", <marker>:" and strip
ArtistStep2(s) ==
    LET i == FirstIn({k \in 1..Len(s) : /\ s[k] = ","
                                        /\ NextNonBlank(s, k + 1) # 0
                                        /\ s[NextNonBlank(s, k + 1)] \in InstSecondary})
    IN  Strip(IF i = 0 THEN s ELSE Before(s, i))
\* line 62-64: Latin head, Hangul remainder after the first comma
ArtistStep3(s) ==
    LET i == FirstIn({k \in 1..Len(s) : s[k] = ","})
    IN  IF i # 0 /\ Has(After(s, i), ArtistKorean) /\ Has(Before(s, i), ArtistLatin)
        THEN Strip(Before(s, i)) ELSE s
\* line 65: parenthesised text becomes one space
ArtistStep4(s) == Replace(s, ArtistParen, BLANK)
\* line 66, 67
ArtistStep5(s) == SplitAtWord(SplitAtWord(s, "feat"), "of")

clean_artist_name(a) ==
    Strip(The({ArtistStep5(s4) : s4 \in
              {ArtistStep4(s3) : s3 \in
              {ArtistStep3(s2) : s2 \in
              {ArtistStep2(s1) : s1 \in
              {ArtistStep1(a)}}}}}))

(***************************************************************************)
(* clean_title (spotify_client.py 71-140).                                 *)
(* Title tokens: "[req]" a bracketed request code; "+" ; "&" ; "2#beon" a  *)
(* number marker; "#film<X>OST-" the film prefix; "/" ; "Aa" "Bb" "Ww"      *)
(* Latin words; "#ga" a Hangul word; "(Ww)" a parenthesised Latin run;      *)
(* "(#na)" a parenthesised Hangul run; "#jung2#akjang" a movement marker; ",".    *)
(* "<X>OST-" is what line 134 leaves of the film prefix.                   *)
(***************************************************************************)
ReqCode     == {"[req]"}
LatinWord   == {"Aa", "Bb", "Ww"}
WestParen   == {"(Ww)"}
KorParen    == {"(#na)"}
Movement    == {"#jung2#akjang"}
NumMarker   == {"2#beon"}
OstPrefix   == {"#film<X>OST-"}
TitleKorean == {"#ga", "2#beon", "#film<X>OST-", "(#na)", "#jung2#akjang", "[req]"}
TitleLatin  == {"Aa", "Bb", "Ww", "(Ww)", "#film<X>OST-", "<X>OST-"}
NoComposer  == <<>>      \* Python None (a composer, when extracted, is never empty)

\* group(1) of the parenthesised Latin run of line 117-119
ParenContent(t) == <<"Ww">>

\* line 132-134 on one token: the number marker removed, Hangul runs become one space
RECURSIVE DropKorean(_)
DropKorean(s) ==
    IF s = <<>> THEN <<>>
    ELSE (CASE Head(s) \in NumMarker -> <<BLANK>>
            [] Head(s) \in OstPrefix -> <<BLANK, "<X>OST-">>
            [] Head(s) \in TitleKorean -> <<BLANK>>
            [] OTHER -> <<Head(s)>>) \o DropKorean(Tail(s))

\* line 138: stray leading and trailing whitespace, "," and "&"
RECURSIVE LStripPunct(_)
LStripPunct(s) ==
    IF s # <<>> /\ Head(s) \in {BLANK, ",", "&"} THEN LStripPunct(Tail(s)) ELSE s
RECURSIVE RStripPunct(_)
RStripPunct(s) ==
    IF s # <<>> /\ s[Len(s)] \in {BLANK, ",", "&"}
    THEN RStripPunct(SubSeq(s, 1, Len(s) - 1)) ELSE s

\* 1. line 90: request codes, with the whitespace after them
TitleStep1(t) ==
    LET f == Filter(t, ReqCode)
    IN  IF t # <<>> /\ t[Len(t)] \in ReqCode /\ f # <<>> THEN f \o <<BLANK>> ELSE f
\* 2. line 93: cut at the first "+" that whitespace follows
TitleStep2(s) ==
    LET i == FirstIn({k \in 1..(Len(s) - 1) : s[k] = "+"})
    IN  Strip(IF i = 0 THEN s ELSE Before(s, i))
\*    line 95: cut at "&" followed by a number marker
TitleStep2b(s) ==
    LET i == FirstIn({k \in 1..(Len(s) - 1) : s[k] = "&" /\ s[k + 1] \in NumMarker})
    IN  Strip(IF i = 0 THEN s ELSE Before(s, i))
\* 3. line 98-100: film prefix at the start, something after it
TitleStep3(s) == IF Len(s) >= 2 /\ s[1] \in OstPrefix THEN Strip(Tail(s)) ELSE s
\* 4. line 103-107: "<Latin run> / <rest>" gives the composer
TitleStep4(s) ==
    LET i == FirstIn({k \in 1..Len(s) : s[k] = "/"})
        m == i >= 2 /\ i < Len(s) /\ \A k \in 1..(i - 1) : s[k] \in LatinWord
    IN  IF m THEN [title |-> Strip(After(s, i)), composer |-> Strip(Before(s, i))]
        ELSE [title |-> s, composer |-> NoComposer]
\* 5. line 110: movement markers become one space
TitleStep5(r) == [r EXCEPT !.title = Replace(r.title, Movement, BLANK)]
\* 6. line 115-122: Hangul title with a parenthesised Latin run
TitleStep6(r) ==
    LET i == FirstIn({k \in 1..Len(r.title) : r.title[k] \in WestParen})
    IN  IF Has(r.title, TitleKorean) /\ i # 0
        THEN [r EXCEPT !.title = Strip(ParenContent(r.title[i]))] ELSE r
\* 7. line 126: parenthesised Hangul removed
TitleStep7(r) == [r EXCEPT !.title = Replace(r.title, KorParen, BLANK)]
\* 8. line 129-134
TitleStep8(r) ==
    IF Has(r.title, TitleKorean) /\ Has(r.title, TitleLatin)
    THEN [r EXCEPT !.title = DropKorean(r.title)] ELSE r
\* 9. line 137, 138
TitleStep9(r) == [r EXCEPT !.title = RStripPunct(LStripPunct(Strip(Filter(r.title, {BLANK}))))]

clean_title(t) ==
    The({TitleStep9(r8) : r8 \in
        {TitleStep8(r7) : r7 \in
        {TitleStep7(r6) : r6 \in
        {TitleStep6(r5) : r5 \in
        {TitleStep5(r4) : r4 \in
        {TitleStep4(s3) : s3 \in
        {TitleStep3(s2b) : s2b \in
        {TitleStep2b(s2) : s2 \in
        {TitleStep2(s1) : s1 \in
        {TitleStep1(t)}}}}}}}}}})
(***************************************************************************)
(* search_spotify_track (spotify_client.py 143-217).                       *)
(*                                                                         *)
(* One sp.search call answers with one of:                                 *)
(*   raise      the call raised (timeout, HTTP error)                      *)
(*   malformed  a response on which .get fails (None, "tracks": null)      *)
(*   no_tracks  a response without "tracks"/"items": .get gives []         *)
(*   bad_item   a non-empty item list whose first item has no "id"         *)
(*   ok         an item list of track ids, possibly empty                  *)
(***************************************************************************)
TrackIds == {"trk1", "trk2"}
NoTrack  == "None"          \* Python None
Raised   == "raised"        \* an exception left search_spotify_track

SearchOutcomes ==
    {[kind |-> k, items |-> <<>>] : k \in {"raise", "malformed", "no_tracks", "bad_item"}}
    \cup {[kind |-> "ok", items |-> i] : i \in SeqsUpTo(TrackIds, MaxItems)}

\* a faulty try block: an exception of the search propagates
TierLeak(o) ==
    CASE o.kind = "raise"     -> [kind |-> "raise", id |-> NoTrack]
      [] o.kind = "malformed" -> [kind |-> "next", id |-> NoTrack]
      [] o.kind = "no_tracks" -> [kind |-> "next", id |-> NoTrack]
      [] o.kind = "bad_item"  -> [kind |-> "next", id |-> NoTrack]
      [] o.kind = "ok" -> IF o.items # <<>> THEN [kind |-> "return", id |-> o.items[1]]
                          ELSE [kind |-> "next", id |-> NoTrack]
\* a faulty try block: a result of one track does not end the call
TierNoStop(o) ==
    CASE o.kind = "raise"     -> [kind |-> "next", id |-> NoTrack]
      [] o.kind = "malformed" -> [kind |-> "next", id |-> NoTrack]
      [] o.kind = "no_tracks" -> [kind |-> "next", id |-> NoTrack]
      [] o.kind = "bad_item"  -> [kind |-> "next", id |-> NoTrack]
      [] o.kind = "ok" -> IF Len(o.items) > 1 THEN [kind |-> "return", id |-> o.items[1]]
                          ELSE [kind |-> "next", id |-> NoTrack]
\* the try block of one tier (lines 174-181, 185-192, 197-204, 207-214):
\* "return" with tracks[0]["id"], "next" to fall through, "raise" to propagate
TryTier(o) ==
    CASE o.kind = "raise"     -> [kind |-> "next", id |-> NoTrack]    \* except Exception
      [] o.kind = "malformed" -> [kind |-> "next", id |-> NoTrack]    \* AttributeError caught
      [] o.kind = "no_tracks" -> [kind |-> "next", id |-> NoTrack]    \* tracks == []
      [] o.kind = "bad_item"  -> [kind |-> "next", id |-> NoTrack]    \* KeyError caught
      [] o.kind = "ok" -> IF o.items # <<>> THEN [kind |-> "return", id |-> o.items[1]]
                          ELSE [kind |-> "next", id |-> NoTrack]

\* a faulty guard: on the raw artist
ArtistGuardRaw(raw, cleaned) == raw # <<>>
\* line 172: if cleaned_artist
ArtistGuard(raw, cleaned) == cleaned # <<>>

\* line 195: if composer
ComposerGuard(c) == c # NoComposer

\* the queries of lines 173, 184, 196, 208 and their result limits
Query(tier) ==
    CASE tier = 1 -> [kind |-> "field", title |-> cleaned_title, with |-> cleaned_artist, limit |-> 3]
      [] tier = 2 -> [kind |-> "text", title |-> cleaned_title, with |-> cleaned_artist, limit |-> 3]
      [] tier = 3 -> [kind |-> "text", title |-> cleaned_title, with |-> composer, limit |-> 3]
      [] tier = 4 -> [kind |-> "text", title |-> cleaned_title, with |-> <<>>, limit |-> 5]

\* a faulty fall-through: tier 1 is searched again after it fell through
AfterTierAgain(t) ==
    CASE t = 1 -> "tier1"
      [] t = 2 -> "tier4"
      [] t = 3 -> "tier4"
      [] t = 4 -> "done"

\* where control goes when tier t falls through
AfterTier(t) ==
    CASE t = 1 -> "tier2"
      [] t = 2 -> IF ComposerGuard(composer) THEN "tier3" ELSE "tier4"
      [] t = 3 -> "tier4"
      [] t = 4 -> "done"

\* lines 163-164
SearchBegin ==
    /\ searchPc = "start"
    /\ cleaned_title' = clean_title(title).title
    /\ composer' = clean_title(title).composer
    /\ cleaned_artist' = IF artist # <<>> THEN clean_artist_name(artist) ELSE <<>>
    /\ searchPc' = (CASE ArtistGuard(artist, cleaned_artist') -> "tier1"
                      [] ~ArtistGuard(artist, cleaned_artist') /\ ComposerGuard(composer') -> "tier3"
                      [] OTHER -> "tier4")
    /\ UNCHANGED <<title, artist, searchCalls, searchAnswer, searchResult>>

\* one tier: the search call and what the try block does with its answer
Tier(t, o) ==
    /\ searchPc = (CASE t = 1 -> "tier1" [] t = 2 -> "tier2" [] t = 3 -> "tier3" [] t = 4 -> "tier4")
    /\ searchCalls' = Append(searchCalls, [tier |-> t, q |-> Query(t),
                                            found |-> o.kind = "ok" /\ o.items # <<>>])
    /\ searchAnswer' = o
    /\ LET r == TryTier(o)
       IN  /\ searchPc' = IF r.kind = "next" THEN AfterTier(t) ELSE "done"
           /\ searchResult' = (CASE r.kind = "return" -> r.id
                                 [] r.kind = "raise" -> Raised
                                 [] OTHER -> NoTrack)    \* line 217 once tier 4 fell through
    /\ UNCHANGED <<title, artist, cleaned_title, composer, cleaned_artist>>

Tier1 == \E o \in SearchOutcomes : Tier(1, o)
Tier2 == \E o \in SearchOutcomes : Tier(2, o)
Tier3 == \E o \in SearchOutcomes : Tier(3, o)
Tier4 == \E o \in SearchOutcomes : Tier(4, o)
(***************************************************************************)
(* _parse_kbs_board_songs (radio_scraper.py 202-334).                      *)
(* A line is a token sequence.  Line tokens: "1." the digits and dot that  *)
(* open a numbered entry; "Ta" "Tb" words; "3'14" a duration; "/" ;        *)
(* "pf:" an instrument marker of inst_re; "#jihwi:" the conductor marker   *)
(* (also in inst_re); "," ; "*" the note prefix; "+" the continuation      *)
(* prefix; "Banner" a word containing one of skip_words.                   *)
(***************************************************************************)
NumTok    == {"1."}
DurTok    == {"3'14"}
InstTok   == {"pf:", "#jihwi:"}
BannerTok == {"Banner"}

\* num_re.match(line): digits, a dot and at least one more character
IsEntry(line) == Len(line) >= 2 /\ line[1] \in NumTok
\* num_m.group(2).strip()
FirstTitle(line) == Strip(Tail(line))
\* any(h in line for h in skip_words)
IsBanner(line) == Has(line, BannerTok)
\* dur_re.search(x)
HasDur(x) == Has(x, DurTok)
\* dur_re.sub("", x).strip()
DropDur(x) == Strip(Replace(x, DurTok, BLANK))
\* line 290-291: only durations, "/" and spaces, and at least one duration
IsPureDur(bl) == HasDur(bl) /\ \A i \in 1..Len(bl) : bl[i] \in DurTok \cup {"/", BLANK}
\* re.split(r",\s*jihwi:", a)[0].strip().rstrip(",")   (lines 270, 316, 328)
DropConductor(a) ==
    LET i == FirstIn({k \in 1..Len(a) : /\ a[k] = ","
                                         /\ NextNonBlank(a, k + 1) # 0
                                         /\ a[NextNonBlank(a, k + 1)] = "#jihwi:"})
        s == Strip(IF i = 0 THEN a ELSE Before(a, i))
    IN  IF s # <<>> /\ s[Len(s)] = ","
        THEN (IF Len(s) = 1 THEN <<>> ELSE Before(s, Len(s)) \o <<BLANK>>)
        ELSE s
\* a faulty artist extraction: the artist line as it is
ArtistOfLineRaw(al) == al

\* lines 310-316 and 323-328: the artist of an artist line
ArtistOfLine(al) ==
    DropConductor(IF al # <<>> /\ al[1] \in InstTok THEN Strip(Tail(al)) ELSE Strip(al))

\* Step 1 (lines 237-243): the indices of the entry lines, in order
EntryIndices(lines) == {i \in 1..Len(lines) : IsEntry(lines[i])}

\* a faulty block: it runs to the end of the lines, past the next entry line
RECURSIVE BlockOfToEnd(_, _, _)
BlockOfToEnd(lines, from, end) ==
    IF from > Len(lines) THEN <<>>
    ELSE LET bl == Strip(lines[from])
         IN  (IF bl = <<>> \/ IsBanner(bl) THEN <<>> ELSE <<bl>>)
             \o BlockOfToEnd(lines, from + 1, end)

\* lines 254-261: the block of the entry at start, up to (not including) end
RECURSIVE BlockOf(_, _, _)
BlockOf(lines, from, end) ==
    IF from >= end THEN <<>>
    ELSE LET bl == Strip(lines[from])
         IN  (IF bl = <<>> \/ IsBanner(bl) THEN <<>> ELSE <<bl>>) \o BlockOf(lines, from + 1, end)

\* lines 287-293: index of the last pure duration line of the block, 0 if none
DurLineIdx(block) ==
    LET I == {i \in 1..Len(block) : IsPureDur(block[i])}
    IN  IF I = {} THEN 0 ELSE CHOOSE i \in I : \A j \in I : j <= i

\* a faulty artist lookup: the line just before the duration line, note or not
ArtistIdxAnyLine(block, d) == d - 1

\* lines 298-300: the nearest line before the duration line that is no note, 0 if none
ArtistIdx(block, d) ==
    LET I == {i \in 1..(d - 1) : block[i][1] # "*"}
    IN  IF I = {} THEN 0 ELSE CHOOSE i \in I : \A j \in I : j <= i

\* lines 305-307: " ".join of the title parts
RECURSIVE TitleParts(_, _, _)
TitleParts(block, i, ai) ==
    IF i >= ai THEN <<>>
    ELSE (IF block[i][1] = "+" THEN <<>> ELSE block[i]) \o TitleParts(block, i + 1, ai)

\* lines 246-332: the songs (none or one) of the entry at index start
ParseEntry(lines, start, end) ==
    LET first_title == FirstTitle(lines[start])
        block == BlockOf(lines, start + 1, end)
        d == DurLineIdx(block)
        ai == ArtistIdx(block, d)
    IN  IF HasDur(first_title)
        THEN \* Case 1; inst_re is anchored at the start of first_title
             IF first_title[1] \in InstTok
             THEN <<>>                          \* song_title == "" is dropped
             ELSE IF DropDur(first_title) # <<>>
                  THEN <<[title |-> DropDur(first_title), artist |-> <<>>]>>
                  ELSE <<>>
        ELSE IF block = <<>> THEN <<[title |-> first_title, artist |-> <<>>]>>
        ELSE IF d > 1
             THEN IF ai # 0
                  THEN <<[title |-> first_title \o TitleParts(block, 1, ai),
                          artist |-> ArtistOfLine(block[ai])]>>
                  ELSE <<[title |-> first_title, artist |-> <<>>]>>
        ELSE IF d = 1 THEN <<[title |-> first_title, artist |-> <<>>]>>
        ELSE <<[title |-> first_title, artist |-> ArtistOfLine(block[1])]>>

\* a faulty loop: the entries of later lines come first
RECURSIVE ParseFromBackwards(_, _)
ParseFromBackwards(lines, i) ==
    IF i > Len(lines) THEN <<>>
    ELSE IF ~IsEntry(lines[i]) THEN ParseFromBackwards(lines, i + 1)
    ELSE LET later == {j \in EntryIndices(lines) : j > i}
             end == IF later = {} THEN Len(lines) + 1
                    ELSE CHOOSE j \in later : \A k \in later : j <= k
         IN  ParseFromBackwards(lines, i + 1) \o ParseEntry(lines, i, end)

RECURSIVE ParseFrom(_, _)
ParseFrom(lines, i) ==
    IF i > Len(lines) THEN <<>>
    ELSE IF ~IsEntry(lines[i]) THEN ParseFrom(lines, i + 1)
    ELSE LET later == {j \in EntryIndices(lines) : j > i}
             end == IF later = {} THEN Len(lines) + 1
                    ELSE CHOOSE j \in later : \A k \in later : j <= k
         IN  ParseEntry(lines, i, end) \o ParseFrom(lines, i + 1)

parse_kbs_board_songs(lines) == ParseFrom(lines, 1)
(***************************************************************************)
(* Dates.  The clock counts days; Calendar gives the month and day of each *)
(* (a sparse, increasing choice of days of one year).                      *)
(***************************************************************************)
Calendar == << [m |-> 1, d |-> 1], [m |-> 1, d |-> 11], [m |-> 11, d |-> 1],
               [m |-> 11, d |-> 11], [m |-> 12, d |-> 1], [m |-> 12, d |-> 11] >>
Days   == 1..MaxDay
NoDate == [fmt |-> "None", day |-> 0]          \* date_str is None
\* a date string: "%Y-%m-%d" (dash), "%Y%m%d" (compact) or some other text (junk)
DateStrs == {NoDate} \cup [fmt : {"dash", "compact", "junk"}, day : Days]

DigitChar == <<"0", "1", "2", "3", "4", "5", "6", "7", "8", "9">>
\* str(n) for 0 <= n <= 99, no zero padding
Digits(n) == IF n < 10 THEN <<DigitChar[n + 1]>>
             ELSE <<DigitChar[(n \div 10) + 1], DigitChar[(n % 10) + 1]>>
\* f"{month}M {day}D" of radio_scraper.py 162 ("M" and "D" stand for the Hangul
\* words for month and day), as a sequence of characters
TargetMarker(day) ==
    Digits(Calendar[day].m) \o <<"M", " ">> \o Digits(Calendar[day].d) \o <<"D">>
\* the title of the post of a day; 0 is a post without a date in its title
PostTitle(day) == IF day = 0 THEN <<"n", "o", "t", "i", "c", "e">>
                  ELSE TargetMarker(day) \o <<" ", "l", "i", "s", "t">>
\* Python "sub in s" on character sequences
Contains(sub, str) ==
    \E i \in 1..(Len(str) - Len(sub) + 1) : SubSeq(str, i, i + Len(sub) - 1) = sub

(***************************************************************************)
(* fetch_songs and the three adapters (radio_scraper.py 36-199, 337-365).  *)
(***************************************************************************)
Missing == "Missing"          \* the key is not in the dict
Sources == {"mbc", "kbs", "kbs_board", "sbs", Missing}
Programs == [source : Sources, prog_code : {"P1", Missing}, bbs_id : {"B1", Missing}]

SongTitles  == {<<>>, <<"Aa">>, <<"Bb">>}
SongArtists == {<<>>, <<"Kim">>}

\* a request that did not give a usable response: requests.get raised, raise_for_status
\* raised, resp.json() raised
Failures == {"transport", "status", "badjson"}
FailedResponses == {[kind |-> k] : k \in Failures}

\* a row of the MBC listing: the day in its date cell (0: no cells) and its link
MbcListRows == [day : {0} \cup Days, link : {"none", "noseq", "seq1"}]
MbcListResponses == FailedResponses \cup
    {[kind |-> "ok", rows |-> r] : r \in SeqsUpTo(MbcListRows, MaxRows)}
\* a row of the MBC detail table: fewer than three cells, or title and artist cells
MbcViewRows == {[cells |-> 2, t |-> <<>>, a |-> <<>>]} \cup
               [cells : {3}, t : SongTitles, a : SongArtists]
MbcViewResponses == FailedResponses \cup
    {[kind |-> "ok", rows |-> r] : r \in SeqsUpTo(MbcViewRows, MaxRows)}
\* an item of the KBS API: song_title and artist, each text, absent or null
Text(v) == [has |-> "text", v |-> v]
Absent  == [has |-> "absent", v |-> <<>>]
Null    == [has |-> "null", v |-> <<>>]
KbsItems == [song_title : {Text(<<"Aa">>), Absent, Null},
             artist : {Text(<<"Kim">>), Text(<<>>), Absent}]
KbsResponses == FailedResponses \cup {[kind |-> "notdict"]} \cup
    {[kind |-> "ok", items |-> r] : r \in SeqsUpTo(KbsItems, MaxRows)}
\* a post of the board list: the day its title names and whether it has id/post_no
BoardPosts == [day : {0} \cup Days, ids : BOOLEAN]
BoardListResponses == FailedResponses \cup
    {[kind |-> "ok", data |-> r] : r \in SeqsUpTo(BoardPosts, MaxRows)}
\* the lines of a post body
BoardLines == {<<>>, <<"1.", "Ta">>, <<"pf:", "Tb">>, <<"3'14">>}
BoardReadResponses == FailedResponses \cup
    {[kind |-> "ok", post_contents |-> r] : r \in SeqsUpTo(BoardLines, MaxBodyLines)}

NoSongs == [kind |-> "none"]                    \* Python None
SongsOrNone(songs) == IF songs # <<>> THEN [kind |-> "songs", songs |-> songs] ELSE NoSongs

\* a faulty except clause: the exception is raised again
ExceptReraise(exc) == [kind |-> "raise", exc |-> exc]
\* the except clause of an adapter (lines 82-84, 122-124, 197-199)
Except(exc) == NoSongs

\* lines 356-365
Dispatch(prog) ==
    CASE prog.source = "mbc" ->
           IF prog.prog_code = Missing THEN [kind |-> "raise", exc |-> "KeyError"]
           ELSE [kind |-> "call", to |-> "mbc_list"]
      [] prog.source = "kbs" ->
           IF prog.prog_code = Missing THEN [kind |-> "raise", exc |-> "KeyError"]
           ELSE [kind |-> "call", to |-> "kbs_api"]
      [] prog.source = "kbs_board" ->
           IF prog.bbs_id = Missing THEN [kind |-> "raise", exc |-> "KeyError"]
           ELSE [kind |-> "call", to |-> "board_list"]
      [] OTHER -> [kind |-> "raise", exc |-> "ValueError"]

\* lines 47-48, 98-99, 138-139: the adapter's default date is today
DefaultDate(to) ==
    [fmt |-> IF to = "kbs_api" THEN "compact" ELSE "dash", day |-> clock]

FetchSongs ==
    /\ fetchPc = "start"
    /\ LET r == Dispatch(program)
       IN  IF r.kind = "raise"
           THEN /\ fetchPc' = "done"
                /\ fetchResult' = r
                /\ UNCHANGED date_str
           ELSE /\ fetchPc' = r.to
                /\ date_str' = IF date_str = NoDate THEN DefaultDate(r.to) ELSE date_str
                /\ UNCHANGED fetchResult
    /\ page' = 1
    /\ UNCHANGED <<program, seq_id, post, requests, response>>

\* the adapter returns r
Return(r) ==
    /\ fetchPc' = "done"
    /\ fetchResult' = r

\* a faulty row loop: the last such row instead of the first
MbcMatchLast(rows, ds) ==
    LET I == {i \in 1..Len(rows) : rows[i].day # 0 /\ ds.fmt = "dash" /\ ds.day = rows[i].day}
    IN  IF I = {} THEN 0 ELSE CHOOSE i \in I : \A j \in I : i >= j

\* lines 58-60: the index of the first row whose date cell contains date_str, 0 if none
MbcMatch(rows, ds) ==
    FirstIn({i \in 1..Len(rows) : rows[i].day # 0 /\ ds.fmt = "dash" /\ ds.day = rows[i].day})

\* lines 51-81: one listing page
MbcList ==
    /\ fetchPc = "mbc_list"
    /\ \E resp \in MbcListResponses :
        /\ requests' = Append(requests, [kind |-> "mbc_list", arg |-> page])
        /\ response' = resp
        /\ IF resp.kind \in Failures
           THEN Return(Except(resp.kind)) /\ UNCHANGED <<page, seq_id>>
           ELSE LET i == MbcMatch(resp.rows, date_str)
                IN  IF i = 0
                    THEN IF page < 4
                         THEN /\ page' = page + 1
                              /\ UNCHANGED <<fetchPc, fetchResult, seq_id>>
                         ELSE Return(NoSongs) /\ UNCHANGED <<page, seq_id>>      \* line 81
                    ELSE IF resp.rows[i].link \in {"none", "noseq"}
                         THEN Return(NoSongs) /\ UNCHANGED <<page, seq_id>>      \* line 80
                         ELSE /\ fetchPc' = "mbc_view"
                              /\ seq_id' = resp.rows[i].link
                              /\ UNCHANGED <<page, fetchResult>>
    /\ UNCHANGED <<program, date_str, post>>

\* lines 71-78: rows with three cells and non-empty title and artist
RECURSIVE MbcSongs(_)
MbcSongs(rows) ==
    IF rows = <<>> THEN <<>>
    ELSE (IF Head(rows).cells >= 3 /\ Head(rows).t # <<>> /\ Head(rows).a # <<>>
          THEN <<[title |-> Head(rows).t, artist |-> Head(rows).a]>> ELSE <<>>)
         \o MbcSongs(Tail(rows))

\* lines 67-79: the detail page
MbcView ==
    /\ fetchPc = "mbc_view"
    /\ \E resp \in MbcViewResponses :
        /\ requests' = Append(requests, [kind |-> "mbc_view", arg |-> seq_id])
        /\ response' = resp
        /\ IF resp.kind \in Failures
           THEN Return(Except(resp.kind))
           ELSE Return(SongsOrNone(MbcSongs(resp.rows)))
    /\ UNCHANGED <<program, date_str, page, seq_id, post>>

\* item.get(key, "").strip(): a null value has no strip
KbsField(f) == IF f.has = "absent" THEN <<>> ELSE Strip(f.v)

RECURSIVE KbsSongs(_)
KbsSongs(items) ==
    IF items = <<>> THEN <<>>
    ELSE (IF KbsField(Head(items).song_title) # <<>> /\ KbsField(Head(items).artist) # <<>>
          THEN <<[title |-> KbsField(Head(items).song_title),
                  artist |-> KbsField(Head(items).artist)]>> ELSE <<>>)
         \o KbsSongs(Tail(items))

\* lines 101-124
KbsApi ==
    /\ fetchPc = "kbs_api"
    /\ \E resp \in KbsResponses :
        /\ requests' = Append(requests, [kind |-> "kbs_api", arg |-> date_str.day])
        /\ response' = resp
        /\ IF resp.kind \in Failures
           THEN Return(Except(resp.kind))
           ELSE IF resp.kind = "notdict"
           THEN Return(Except("AttributeError"))
           ELSE IF \E i \in 1..Len(resp.items) : Null \in {resp.items[i].song_title, resp.items[i].artist}
           THEN Return(Except("AttributeError"))
           ELSE Return(SongsOrNone(KbsSongs(resp.items)))
    /\ UNCHANGED <<program, date_str, page, seq_id, post>>

\* a faulty post loop: the last such post instead of the first
BoardMatchLast(data, day) ==
    LET I == {i \in 1..Len(data) : Contains(TargetMarker(day), PostTitle(data[i].day))}
    IN  IF I = {} THEN 0 ELSE CHOOSE i \in I : \A j \in I : i >= j

\* lines 165-168: the index of the first post whose title contains the marker, 0 if none
BoardMatch(data, day) ==
    FirstIn({i \in 1..Len(data) : Contains(TargetMarker(day), PostTitle(data[i].day))})

\* lines 142-171 and the params of line 178
BoardList ==
    /\ fetchPc = "board_list"
    /\ \E resp \in BoardListResponses :
        /\ requests' = Append(requests, [kind |-> "board_list", arg |-> 1])
        /\ response' = resp
        /\ IF resp.kind \in Failures
           THEN Return(Except(resp.kind)) /\ UNCHANGED post
           ELSE IF date_str.fmt # "dash"
           THEN Return(Except("IndexError")) /\ UNCHANGED post      \* lines 160-161
           ELSE LET i == BoardMatch(resp.data, date_str.day)
                IN  IF i = 0
                    THEN Return(NoSongs) /\ UNCHANGED post          \* line 171
                    ELSE IF ~resp.data[i].ids
                    THEN Return(Except("KeyError")) /\ post' = resp.data[i]
                    ELSE /\ fetchPc' = "board_read"
                         /\ post' = resp.data[i]
                         /\ UNCHANGED fetchResult
    /\ UNCHANGED <<program, date_str, page, seq_id>>

\* a faulty line split: the lines as they are, neither trimmed nor filtered
HtmlLinesUntrimmed(body) == body

\* lines 188-192: the trimmed non-empty lines of the post body
RECURSIVE HtmlLines(_)
HtmlLines(body) ==
    IF body = <<>> THEN <<>>
    ELSE (IF Strip(Head(body)) # <<>> THEN <<Strip(Head(body))>> ELSE <<>>)
         \o HtmlLines(Tail(body))

\* lines 174-196
BoardRead ==
    /\ fetchPc = "board_read"
    /\ \E resp \in BoardReadResponses :
        /\ requests' = Append(requests, [kind |-> "board_read", arg |-> post.day])
        /\ response' = resp
        /\ IF resp.kind \in Failures
           THEN Return(Except(resp.kind))
           ELSE IF resp.post_contents = <<>>
           THEN Return(NoSongs)                                       \* line 185
           ELSE Return(SongsOrNone(parse_kbs_board_songs(HtmlLines(resp.post_contents))))
    /\ UNCHANGED <<program, date_str, page, seq_id, post>>
(***************************************************************************)
(* json.dumps / json.loads of a song list (jobs.py 266, 288, 294;          *)
(* api.py 264, 270, 298, 301, 445, 455, 457).  JSON text is a sequence of  *)
(* tokens.  Inside a string json.dumps escapes the quote and the backslash *)
(* with a backslash and writes a Hangul word as a \u escape.               *)
(***************************************************************************)
QUOTE  == "\""
BSLASH == "\\"

\* a faulty encoder: nothing is escaped
EscTokPlain(c) == <<c>>
\* json.dumps on one token of a string
EscTok(c) ==
    CASE c = QUOTE  -> <<BSLASH, QUOTE>>
      [] c = BSLASH -> <<BSLASH, BSLASH>>
      [] c = "#ga"  -> <<BSLASH, "uAC00">>
      [] OTHER      -> <<c>>

RECURSIVE EscStr(_)
EscStr(str) == IF str = <<>> THEN <<>> ELSE EscTok(Head(str)) \o EscStr(Tail(str))

EncStr(str) == <<QUOTE>> \o EscStr(str) \o <<QUOTE>>

EncSong(song) ==
    <<"{", "title:">> \o EncStr(song.title) \o <<",", "artist:">> \o EncStr(song.artist)
    \o <<"}">>

RECURSIVE EncSongs(_)
EncSongs(songs) ==
    IF songs = <<>> THEN <<>>
    ELSE IF Len(songs) = 1 THEN EncSong(songs[1])
    ELSE EncSong(songs[1]) \o <<",">> \o EncSongs(Tail(songs))

json_dumps(songs) == <<"[">> \o EncSongs(songs) \o <<"]">>

At(txt, i) == IF i \in 1..Len(txt) THEN txt[i] ELSE "EOF"
ParseError == [ok |-> FALSE, val |-> <<>>, next |-> 0]        \* json.JSONDecodeError

\* the string whose opening quote is before position i
RECURSIVE ReadStr(_, _, _)
ReadStr(txt, i, acc) ==
    CASE At(txt, i) = "EOF" -> ParseError
      [] At(txt, i) = QUOTE -> [ok |-> TRUE, val |-> acc, next |-> i + 1]
      [] At(txt, i) = BSLASH ->
           (CASE At(txt, i + 1) \in {QUOTE, BSLASH} -> ReadStr(txt, i + 2, Append(acc, txt[i + 1]))
              [] At(txt, i + 1) = "uAC00" -> ReadStr(txt, i + 2, Append(acc, "#ga"))
              [] OTHER -> ParseError)
      [] OTHER -> ReadStr(txt, i + 1, Append(acc, txt[i]))

\* the object that starts at position i
ReadSong(txt, i) ==
    IF At(txt, i) = "{" /\ At(txt, i + 1) = "title:" /\ At(txt, i + 2) = QUOTE
    THEN LET t == ReadStr(txt, i + 3, <<>>)
         IN  IF t.ok /\ At(txt, t.next) = "," /\ At(txt, t.next + 1) = "artist:"
                     /\ At(txt, t.next + 2) = QUOTE
             THEN LET a == ReadStr(txt, t.next + 3, <<>>)
                  IN  IF a.ok /\ At(txt, a.next) = "}"
                      THEN [ok |-> TRUE, val |-> [title |-> t.val, artist |-> a.val],
                            next |-> a.next + 1]
                      ELSE ParseError
             ELSE ParseError
    ELSE ParseError

\* the objects that follow position i up to the closing bracket
RECURSIVE ReadSongs(_, _, _)
ReadSongs(txt, i, acc) ==
    LET e == ReadSong(txt, i)
    IN  IF ~e.ok THEN ParseError
        ELSE IF At(txt, e.next) = "]" /\ e.next = Len(txt)
             THEN [ok |-> TRUE, val |-> Append(acc, e.val), next |-> e.next + 1]
        ELSE IF At(txt, e.next) = ","
             THEN ReadSongs(txt, e.next + 1, Append(acc, e.val))
        ELSE ParseError

json_loads(txt) ==
    IF At(txt, 1) # "[" THEN ParseError
    ELSE IF At(txt, 2) = "]" /\ Len(txt) = 2 THEN [ok |-> TRUE, val |-> <<>>, next |-> 3]
    ELSE ReadSongs(txt, 2, <<>>)

(***************************************************************************)
(* The song cache (models.py 131-149) and the handlers that use it:        *)
(*   job  jobs._fetch_or_cache_songs, called by the daily job              *)
(*   api  api._fetch_or_cache_songs, called by create-now                  *)
(*   upd  api.admin_update_cache                                           *)
(*   col  api.admin_run_collect_songs                                      *)
(* and api.admin_clear_cache.  Every handler has its own db.session; a     *)
(* query reads the committed rows, and the changes of a session reach the  *)
(* table when it commits, all or none.  Primary keys are not reused.       *)
(***************************************************************************)
Handlers == {"job", "api", "upd", "col"}
ReadThrough == {"job", "api"}
ProgCodes == 1..MaxPrograms                     \* the prog_code of each PROGRAMS entry
Keys == [program_code : ProgCodes, cache_date : 1..MaxClock]

\* the lists the source publishes
ListA == <<[title |-> <<"Aa">>, artist |-> <<"Kim">>]>>
ListB == <<[title |-> <<"#ga", QUOTE>>, artist |-> <<BSLASH>>],
           [title |-> <<"Bb">>, artist |-> <<>>]>>
SongLists == {ListA, ListB}
\* radio_scraper.py 364-365: fetch_songs raises
AdapterRaised == [kind |-> "raise"]
\* what radio_scraper.fetch_songs(program) gives a handler: a non-empty list, None,
\* or an exception
AdapterResults ==
    {NoSongs, AdapterRaised} \cup {[kind |-> "songs", songs |-> l] : l \in SongLists}

Http(status) == [kind |-> "http", status |-> status]
\* api.py 277-280: the answer of update-cache when fetch_songs raised
FetchError == [kind |-> "http", status |-> 500, error |-> "fetch_songs"]

RowsOf(table, pc, d) == {r \in table : r.program_code = pc /\ r.cache_date = d}
\* SongCache.query.filter_by(program_code=, cache_date=).first(); id 0 is None
NoRow == [id |-> 0, program_code |-> 0, cache_date |-> 0, songs_json |-> <<>>]
First(table, pc, d) ==
    IF RowsOf(table, pc, d) = {} THEN NoRow
    ELSE CHOOSE r \in RowsOf(table, pc, d) : \A q \in RowsOf(table, pc, d) : r.id <= q.id

\* a faulty lookup: the row is never used
CacheLookupMiss(table, pc, d) == [found |-> FALSE, songs |-> <<>>]
\* jobs.py 258-272, api.py 442-447: the cached list, if a row is there and parses
CacheLookup(table, pc, d) ==
    LET cache == First(table, pc, d)
    IN  IF cache.id # 0 /\ json_loads(cache.songs_json).ok
        THEN [found |-> TRUE, songs |-> json_loads(cache.songs_json).val]
        ELSE [found |-> FALSE, songs |-> <<>>]

\* a table without the constraint
NoUniqueConstraint(table, pc, d) == FALSE
\* the UniqueConstraint of models.py 146-149, checked when a row is inserted
UniqueViolation(table, pc, d) == RowsOf(table, pc, d) # {}

\* a faulty existence check: filter_by(program_code=...) without the date
StageOpAnyDate(table, pc, d, songs) ==
    LET rows == {r \in table : r.program_code = pc}
        existing == IF rows = {} THEN NoRow ELSE CHOOSE r \in rows : \A q \in rows : r.id <= q.id
    IN  IF existing.id # 0
        THEN [op |-> "update", id |-> existing.id, program_code |-> pc, cache_date |-> d,
              songs_json |-> json_dumps(songs)]
        ELSE [op |-> "insert", id |-> 0, program_code |-> pc, cache_date |-> d,
              songs_json |-> json_dumps(songs)]
\* jobs.py 282-296, api.py 262-272, 296-302, 453-458: update the row found, else add one
StageOp(table, pc, d, songs) ==
    LET existing == First(table, pc, d)
    IN  IF existing.id # 0
        THEN [op |-> "update", id |-> existing.id, program_code |-> pc, cache_date |-> d,
              songs_json |-> json_dumps(songs)]
        ELSE [op |-> "insert", id |-> 0, program_code |-> pc, cache_date |-> d,
              songs_json |-> json_dumps(songs)]

\* db.session.commit(): the INSERTs and UPDATEs of the session, all or none.  An
\* INSERT of a key that is there fails (IntegrityError); an UPDATE of a row that is
\* gone fails (StaleDataError).
RECURSIVE ApplyOps(_, _, _)
ApplyOps(table, nid, ops) ==
    IF ops = <<>> THEN [ok |-> TRUE, table |-> table, next_id |-> nid]
    ELSE LET o == Head(ops)
         IN  IF o.op = "insert"
             THEN IF UniqueViolation(table, o.program_code, o.cache_date)
                  THEN [ok |-> FALSE, table |-> table, next_id |-> nid]
                  ELSE ApplyOps(table \cup {[id |-> nid, program_code |-> o.program_code,
                                             cache_date |-> o.cache_date,
                                             songs_json |-> o.songs_json]},
                                nid + 1, Tail(ops))
             ELSE IF \E r \in table : r.id = o.id
                  THEN ApplyOps({IF r.id = o.id THEN [r EXCEPT !.songs_json = o.songs_json]
                                 ELSE r : r \in table}, nid, Tail(ops))
                  ELSE [ok |-> FALSE, table |-> table, next_id |-> nid]

\* primary keys a running handler may still need
Budget(w) == IF w = "col" THEN MaxPrograms ELSE 1
RECURSIVE Pledged(_)
Pledged(S) == IF S = {} THEN 0
              ELSE LET w == CHOOSE x \in S : TRUE
                   IN  (IF wpc[w] # "idle" THEN Budget(w) ELSE 0) + Pledged(S \ {w})
CanStart(w) ==
    /\ wpc[w] = "idle"
    /\ Cardinality({x \in Handlers : wpc[x] # "idle"}) < MaxRunning
    /\ next_id - 1 + Pledged(Handlers) + Budget(w) <= MaxRowId

\* the clock passes midnight
Tick ==
    /\ clock < MaxClock
    /\ clock' = clock + 1
    /\ UNCHANGED <<song_cache, next_id, wpc, wprog, wtoday, wsongs, wpending, wfetched,
                   returned, lastWrite>>

\* handler w returns result; fetched tells whether the call went to the source
Returns(w, result, fetched) ==
    returned' = [by |-> w, result |-> result, fetched |-> fetched]

\* the locals of a handler are gone when it returns
Locals(w, prog, today, songs) ==
    /\ wprog' = [wprog EXCEPT ![w] = prog]
    /\ wtoday' = [wtoday EXCEPT ![w] = today]
    /\ wsongs' = [wsongs EXCEPT ![w] = songs]

\* jobs.py 149 and 255-272, api.py 367 and 440-447: today is read, then the cache
Begin(w, p) ==
    /\ w \in ReadThrough
    /\ wpc[w] = "idle"
    /\ LET c == CacheLookup(song_cache, p, clock)
       IN  \/ /\ c.found
              /\ Returns(w, [kind |-> "songs", songs |-> c.songs], FALSE)
              /\ UNCHANGED <<wpc, wprog, wtoday>>
           \/ /\ ~c.found
              /\ CanStart(w)
              /\ wprog' = [wprog EXCEPT ![w] = p]
              /\ wtoday' = [wtoday EXCEPT ![w] = clock]
              /\ wpc' = [wpc EXCEPT ![w] = "fetch"]
              /\ UNCHANGED returned
    /\ UNCHANGED <<clock, song_cache, next_id, wsongs, wpending, wfetched, lastWrite>>

\* api.py 249-255 (upd), 287-289 (col: today is read before the loop)
AdminBegin(w, p) ==
    /\ w \in {"upd", "col"}
    /\ CanStart(w)
    /\ w = "col" => p = 1
    /\ wprog' = [wprog EXCEPT ![w] = p]
    /\ wtoday' = [wtoday EXCEPT ![w] = IF w = "col" THEN clock ELSE wtoday[w]]
    /\ wpc' = [wpc EXCEPT ![w] = "fetch"]
    /\ UNCHANGED <<clock, song_cache, next_id, wsongs, wpending, wfetched, returned, lastWrite>>

\* where col goes after the program it is at (api.py 291, 307)
ColAdvance(w) ==
    IF wprog[w] < MaxPrograms
    THEN /\ wprog' = [wprog EXCEPT ![w] = wprog[w] + 1]
         /\ wpc' = [wpc EXCEPT ![w] = "fetch"]
    ELSE /\ wpc' = [wpc EXCEPT ![w] = "commit"]
         /\ UNCHANGED wprog

\* a faulty fetch that takes an empty result for a list of songs
FetchEmptyAsSongs(w) ==
    /\ wpc[w] = "fetch"
    /\ wpc' = [wpc EXCEPT ![w] = "check"]
    /\ wsongs' = [wsongs EXCEPT ![w] = [kind |-> "songs", songs |-> <<>>]]
    /\ UNCHANGED <<wprog, wtoday, wfetched, returned, clock, song_cache, next_id, wpending,
                   lastWrite>>
\* jobs.py 277-279 and 305-307, api.py 258-261 and 275-276, 293-294, 450-451 and 462;
\* fetch_songs is called without a date, so the adapter takes its default date
Fetch(w) ==
    /\ wpc[w] = "fetch"
    /\ \E r \in AdapterResults :
        IF r.kind = "songs"
        THEN /\ wpc' = [wpc EXCEPT ![w] = "check"]
             /\ wsongs' = [wsongs EXCEPT ![w] = r]
             /\ wfetched' = [wfetched EXCEPT ![w] = DefaultDate("mbc_list").day]
             /\ UNCHANGED <<wprog, wtoday, returned>>
        ELSE IF w = "col"
        THEN ColAdvance(w) /\ UNCHANGED <<wsongs, wtoday, wfetched, returned>>
        ELSE /\ wpc' = [wpc EXCEPT ![w] = "idle"]
             /\ Returns(w, IF w # "upd" THEN NoSongs
                           ELSE IF r = AdapterRaised THEN FetchError ELSE Http(404), TRUE)
             /\ Locals(w, 1, 1, NoSongs)
             /\ wfetched' = [wfetched EXCEPT ![w] = 1]
    /\ UNCHANGED <<clock, song_cache, next_id, wpending, lastWrite>>

\* jobs.py 282-297, api.py 259-272, 295-303, 453-458: the existence check and the
\* insert or update it leads to, in the session; upd reads today here
Check(w) ==
    /\ wpc[w] = "check"
    /\ LET today == IF w = "upd" THEN clock ELSE wtoday[w]
       IN  /\ wtoday' = [wtoday EXCEPT ![w] = today]
           /\ wpending' = [wpending EXCEPT ![w] =
                  Append(wpending[w], StageOp(song_cache, wprog[w], today, wsongs[w].songs))]
    /\ wsongs' = [wsongs EXCEPT ![w] = IF w = "col" THEN NoSongs ELSE wsongs[w]]
    /\ IF w = "col" THEN ColAdvance(w)
       ELSE wpc' = [wpc EXCEPT ![w] = "commit"] /\ UNCHANGED wprog
    /\ UNCHANGED <<clock, song_cache, next_id, wfetched, returned, lastWrite>>

\* the lists written last, after the changes ops were issued
RECURSIVE Issued(_, _)
Issued(lw, ops) ==
    IF ops = <<>> THEN lw
    ELSE Issued([lw EXCEPT ![[program_code |-> Head(ops).program_code,
                              cache_date |-> Head(ops).cache_date]] =
                        json_loads(Head(ops).songs_json).val], Tail(ops))

\* jobs.py 299-304, api.py 273-274 and 277-280, 307-308, 459-462
Commit(w) ==
    /\ wpc[w] = "commit"
    /\ LET r == ApplyOps(song_cache, next_id, wpending[w])
       IN  /\ song_cache' = r.table
           /\ next_id' = r.next_id
           /\ Returns(w, IF w \in ReadThrough THEN wsongs[w]      \* the list, stored or not
                         ELSE IF r.ok THEN Http(200) ELSE Http(500), TRUE)
    /\ lastWrite' = Issued(lastWrite, wpending[w])
    /\ wpending' = [wpending EXCEPT ![w] = <<>>]
    /\ wpc' = [wpc EXCEPT ![w] = "idle"]
    /\ Locals(w, 1, 1, NoSongs)
    /\ wfetched' = [wfetched EXCEPT ![w] = 1]
    /\ UNCHANGED clock

\* api.py 326-331: SongCache.query.delete() and the commit
AdminClearCache ==
    /\ song_cache' = {}
    /\ lastWrite' = [k \in Keys |-> <<>>]
    /\ UNCHANGED <<clock, next_id, wpc, wprog, wtoday, wsongs, wpending, wfetched, returned>>
(***************************************************************************)
(* daily_create_playlists (jobs.py 23-133): the loop over the active users *)
(* and, per user, the loop over the programs the user follows.  db.session *)
(* is the one session of the run: a commit whose flush fails leaves it     *)
(* inactive until rollback() is called, and every ORM object loaded in it  *)
(* expired, so that reading an attribute of such an object raises.         *)
(***************************************************************************)
JobUsers == 1..MaxUsers
\* the prog_code keys of program_map (jobs.py 50-51) and a code that is not one
Configured == {"P1", "P2"}
FollowCodes == Configured \cup {"PX"}
\* how one call of _create_playlist_for_program ends (jobs.py 136-241):
\* "exists" 158-161, "no_songs" 166-168, "created" 232-237, "spotify_error" and
\* "commit_failed" 239-241 (the handler does not roll back), "raised" an exception
\* of lines 152-164, which are outside the try
CreateOutcomes == {"exists", "no_songs", "created", "spotify_error", "commit_failed", "raised"}

\* jobs.py 38-54: the users and the program map are read
JobBegin ==
    /\ jobPc = "start"
    /\ jobPc' = "user"
    /\ jobUser' = 1
    /\ UNCHANGED <<follows, client_ok, jobProg, session, attempts, fatal>>

\* jobs.py 57-72 with 87-106: the next user of the loop, up to the program loop
ProcessUser ==
    /\ jobPc = "user"
    /\ IF jobUser > MaxUsers
       THEN \* the loop is over (68)
            jobPc' = "done" /\ UNCHANGED <<jobUser, jobProg, fatal>>
       ELSE IF session = "inactive"
       THEN \* user.id raises at 87; the handler at 64 reads user.id again (65),
            \* which raises out of the loop into the handler at 71
            jobPc' = "done" /\ fatal' = TRUE /\ UNCHANGED <<jobUser, jobProg>>
       ELSE IF follows[jobUser] = <<>> \/ ~client_ok[jobUser]
       THEN \* return 0, 0 (97) or return 0, len(user_programs) (106)
            jobUser' = jobUser + 1 /\ UNCHANGED <<jobPc, jobProg, fatal>>
       ELSE jobPc' = "prog" /\ jobProg' = 1 /\ UNCHANGED <<jobUser, fatal>>
    /\ UNCHANGED <<follows, client_ok, session, attempts>>

\* jobs.py 109-133: one iteration of the program loop, or its end
ProcessProgram ==
    /\ jobPc = "prog"
    /\ IF jobProg > Len(follows[jobUser])
       THEN \* return successful_count, failed_count (129)
            /\ jobPc' = "user" /\ jobUser' = jobUser + 1
            /\ UNCHANGED <<jobProg, session, attempts>>
       ELSE IF session = "inactive"
       THEN \* user_program.program_code raises at 110, outside the try of 118:
            \* the handler at 131 returns 0, 1 for the user
            /\ jobPc' = "user" /\ jobUser' = jobUser + 1
            /\ UNCHANGED <<jobProg, session, attempts>>
       ELSE IF follows[jobUser][jobProg] \notin Configured
       THEN \* not in config: counted as failed, continue (113-116)
            /\ jobProg' = jobProg + 1
            /\ UNCHANGED <<jobPc, jobUser, session, attempts>>
       ELSE \E o \in CreateOutcomes :
            /\ attempts' = Append(attempts, [user |-> jobUser, at |-> jobProg,
                                             code |-> follows[jobUser][jobProg],
                                             outcome |-> o])
            /\ session' = IF o = "commit_failed" THEN "inactive" ELSE session
            /\ jobProg' = jobProg + 1
            /\ UNCHANGED <<jobPc, jobUser>>
    /\ UNCHANGED <<follows, client_ok, fatal>>

(***************************************************************************)
(* Playlist creation for one (user, program, today): the daily job's and   *)
(* the create-now request's _create_playlist_for_program, with             *)
(* find_or_create_playlist and find_playlist.                              *)
(***************************************************************************)
\* the calls of _create_playlist_for_program for the triple; they may interleave
Runs == {1, 2}
\* jobs.py 136 is the daily job's helper, api.py 364 the create-now request's
Paths == {"job", "now"}
\* the name get_playlist_name gives the playlist of the triple, and another name
PlaylistName == "X"
OtherName    == "Y"
\* playlist ids are the positions in the user's list; 0 is None
NoPlaylist == 0
Local0(path) ==
    [path |-> path, offset |-> 0, playlist_id |-> NoPlaylist, is_new |-> FALSE,
     total_songs |-> 0, track_ids |-> 0, not_found_count |-> 0, added_count |-> 0,
     sent |-> 0, result |-> "running"]

\* the call returns: jobs.py returns True / False, api.py a dict with 'success'
Finish(r, result) ==
    /\ playPc' = [playPc EXCEPT ![r] = "done"]
    /\ local' = [local EXCEPT ![r].result = result]
Did(r, kind) == effects' = effects \cup {<<r, kind>>}

\* a faulty check that goes on to the songs although a row exists
ExistingCheckIgnored(r) ==
    /\ playPc[r] = "start"
    /\ playPc' = [playPc EXCEPT ![r] = "songs"]
    /\ UNCHANGED <<local, effects, user_playlists, sp_playlists, added_items>>
\* jobs.py 148-161, api.py 366-374: the existing-record check
ExistingCheck(r) ==
    /\ playPc[r] = "start"
    /\ IF user_playlists # {}
       THEN /\ Finish(r, IF local[r].path = "job" THEN "ok" ELSE "failed")
            /\ UNCHANGED effects
       ELSE /\ playPc' = [playPc EXCEPT ![r] = "songs"]
            /\ UNCHANGED <<local, effects>>
    /\ UNCHANGED <<user_playlists, sp_playlists, added_items>>

\* jobs.py 164-168, api.py 376-383: the songs of the day, and on the create-now
\* path the user's Spotify client
GetSongs(r) ==
    /\ playPc[r] = "songs"
    /\ Did(r, "songs")
    /\ \E n \in 0..MaxSongs, client \in BOOLEAN :
          IF n = 0 \/ (local[r].path = "now" /\ ~client)
          THEN Finish(r, "failed")
          ELSE /\ playPc' = [playPc EXCEPT ![r] = "list"]
               /\ local' = [local EXCEPT ![r].total_songs = n]
    /\ UNCHANGED <<user_playlists, sp_playlists, added_items>>

\* spotify_client.py 232-233: one page of the user's playlists
PageItems(offset) ==
    {i \in 1..Len(sp_playlists) : offset < i /\ i <= offset + PageSize}
\* spotify_client.py 238-240: the first playlist of the page with the name
NameMatch(items) ==
    {i \in items : sp_playlists[i] = PlaylistName
                   /\ \A j \in items : sp_playlists[j] = PlaylistName => i <= j}
\* spotify_client.py 232-252 and 268-271: one listing request of find_playlist
ListPage(r) ==
    /\ playPc[r] = "list"
    /\ Did(r, "spotify")
    /\ \E raised \in BOOLEAN :
          LET items == PageItems(local[r].offset)
              match == NameMatch(items)
              after == local[r].offset + PageSize
          IN  IF raised \/ items = {}
              THEN /\ playPc' = [playPc EXCEPT ![r] = "create"]
                   /\ UNCHANGED local
              ELSE IF match # {}
              THEN /\ playPc' = [playPc EXCEPT ![r] = "search"]
                   /\ local' = [local EXCEPT ![r].playlist_id = The(match),
                                             ![r].is_new = FALSE]
              ELSE IF after >= Len(sp_playlists)
              THEN /\ playPc' = [playPc EXCEPT ![r] = "create"]
                   /\ UNCHANGED local
              ELSE /\ local' = [local EXCEPT ![r].offset = after]
                   /\ UNCHANGED playPc
    /\ UNCHANGED <<user_playlists, sp_playlists, added_items>>

\* spotify_client.py 273-282: current_user and user_playlist_create
CreatePlaylist(r) ==
    /\ playPc[r] = "create"
    /\ Did(r, "spotify")
    /\ \E raised \in BOOLEAN :
          IF raised
          THEN Finish(r, "failed") /\ UNCHANGED sp_playlists
          ELSE /\ sp_playlists' = Append(sp_playlists, PlaylistName)
               /\ playPc' = [playPc EXCEPT ![r] = "search"]
               /\ local' = [local EXCEPT ![r].playlist_id = Len(sp_playlists) + 1,
                                         ![r].is_new = TRUE]
    /\ UNCHANGED <<user_playlists, added_items>>

\* jobs.py 179-196, api.py 390-397: the searches; on the job's path a search that
\* raises counts as not found, on the create-now path it ends the call
SearchSongs(r) ==
    /\ playPc[r] = "search"
    /\ Did(r, "spotify")
    /\ \E k \in 0..local[r].total_songs, raised \in BOOLEAN :
          IF raised /\ local[r].path = "now"
          THEN Finish(r, "failed")
          ELSE /\ playPc' = [playPc EXCEPT ![r] = "add"]
               /\ local' = [local EXCEPT ![r].track_ids = k,
                                         ![r].not_found_count = local[r].total_songs - k]
    /\ UNCHANGED <<user_playlists, sp_playlists, added_items>>

\* jobs.py 208 and api.py 405-406: added_count after playlist_add_items raised
AddedOnError(path, track_ids) == IF path = "job" THEN track_ids ELSE 0
\* jobs.py 199-208, api.py 399-406: playlist_add_items
AddTracks(r) ==
    /\ playPc[r] = "add"
    /\ playPc' = [playPc EXCEPT ![r] = "save"]
    /\ IF local[r].track_ids = 0
       THEN UNCHANGED <<local, added_items, effects>>
       ELSE /\ Did(r, "spotify")
            /\ \E raised \in BOOLEAN :
                  IF raised
                  THEN /\ local' = [local EXCEPT ![r].added_count =
                                        AddedOnError(local[r].path, local[r].track_ids)]
                       /\ UNCHANGED added_items
                  ELSE /\ local' = [local EXCEPT ![r].added_count = local[r].track_ids,
                                                 ![r].sent = local[r].track_ids]
                       /\ added_items' = [added_items EXCEPT ![r] = @ + 1]
    /\ UNCHANGED <<user_playlists, sp_playlists>>

\* jobs.py 219-229, api.py 411-421: the UserPlaylist row of the call
NewRow(r) ==
    [spotify_playlist_id |-> local[r].playlist_id,
     total_songs |-> local[r].total_songs,
     songs_added |-> local[r].added_count,
     songs_not_found |-> local[r].not_found_count,
     sent |-> local[r].sent]
\* jobs.py 211-241, api.py 408-435: sp.playlist, then the row is added and
\* committed; unique_user_program_date (models.py 122-125) refuses a second row
SaveRow(r) ==
    /\ playPc[r] = "save"
    /\ effects' = effects \cup {<<r, "spotify">>, <<r, "write">>}
    /\ \E info_raised \in BOOLEAN, commit_raised \in BOOLEAN :
          IF \/ info_raised /\ local[r].path = "now"
             \/ commit_raised
             \/ user_playlists # {}
          THEN Finish(r, "failed") /\ UNCHANGED user_playlists
          ELSE /\ user_playlists' = {NewRow(r)}
               /\ Finish(r, "ok")
    /\ UNCHANGED <<sp_playlists, added_items>>
(***************************************************************************)
(* The systems.  Each of them runs its own part of the state; the other      *)
(* parts rest.                                                             *)
(***************************************************************************)
SearchRest ==
    /\ title = <<>> /\ artist = <<>> /\ cleaned_title = <<>> /\ composer = NoComposer
    /\ cleaned_artist = <<>> /\ searchPc = "rest" /\ searchCalls = <<>>
    /\ searchAnswer = [kind |-> "none", items |-> <<>>] /\ searchResult = NoTrack
FetchRest ==
    /\ program = [source |-> Missing, prog_code |-> Missing, bbs_id |-> Missing]
    /\ date_str = NoDate /\ fetchPc = "rest" /\ page = 1 /\ seq_id = "none"
    /\ post = [day |-> 0, ids |-> FALSE] /\ requests = <<>>
    /\ response = [kind |-> "none"] /\ fetchResult = [kind |-> "running"]
CacheRest ==
    /\ song_cache = {} /\ next_id = 1
    /\ wpc = [w \in Handlers |-> "idle"]
    /\ wprog = [w \in Handlers |-> 1]
    /\ wtoday = [w \in Handlers |-> 1]
    /\ wsongs = [w \in Handlers |-> NoSongs]
    /\ wpending = [w \in Handlers |-> <<>>]
    /\ wfetched = [w \in Handlers |-> 1]
    /\ returned = [by |-> "nobody", result |-> NoSongs, fetched |-> FALSE]
    /\ lastWrite = [k \in Keys |-> <<>>]
JobRest ==
    /\ follows = [u \in JobUsers |-> <<>>] /\ client_ok = [u \in JobUsers |-> FALSE]
    /\ jobPc = "rest" /\ jobUser = 1 /\ jobProg = 1 /\ session = "active"
    /\ attempts = <<>> /\ fatal = FALSE
ParseRest == post_lines = <<>> /\ parsePc = "rest" /\ parsed = <<>>
PlayRest ==
    /\ user_playlists = {} /\ sp_playlists = <<>>
    /\ added_items = [r \in Runs |-> 0] /\ effects = {}
    /\ playPc = [r \in Runs |-> "rest"]
    /\ local = [r \in Runs |-> Local0("job")]

\* the titles and artists a caller passes to search_spotify_track
SearchTitles  == SeqsUpTo({"Aa", "/", "#ga"}, MaxTitleLen)
SearchArtists == SeqsUpTo({"Kim", "(live)", "pf:"}, MaxArtistLen)

InitSearch ==
    /\ title \in SearchTitles /\ artist \in SearchArtists
    /\ cleaned_title = <<>> /\ composer = NoComposer /\ cleaned_artist = <<>>
    /\ searchPc = "start" /\ searchCalls = <<>>
    /\ searchAnswer = [kind |-> "none", items |-> <<>>] /\ searchResult = NoTrack
    /\ FetchRest /\ CacheRest /\ clock = 1 /\ JobRest /\ ParseRest /\ PlayRest
NextSearch ==
    \/ SearchBegin /\ UNCHANGED <<fetchVars, cacheVars, jobVars, parseVars, playVars>>
    \/ Tier1 /\ UNCHANGED <<fetchVars, cacheVars, jobVars, parseVars, playVars>>
    \/ Tier2 /\ UNCHANGED <<fetchVars, cacheVars, jobVars, parseVars, playVars>>
    \/ Tier3 /\ UNCHANGED <<fetchVars, cacheVars, jobVars, parseVars, playVars>>
    \/ Tier4 /\ UNCHANGED <<fetchVars, cacheVars, jobVars, parseVars, playVars>>
SpecSearch == InitSearch /\ [][NextSearch]_vars

InitFetch ==
    /\ program \in Programs /\ date_str \in DateStrs /\ clock = 1
    /\ fetchPc = "start" /\ page = 1 /\ seq_id = "none" /\ post = [day |-> 0, ids |-> FALSE]
    /\ requests = <<>> /\ response = [kind |-> "none"] /\ fetchResult = [kind |-> "running"]
    /\ SearchRest /\ CacheRest /\ JobRest /\ ParseRest /\ PlayRest
NextFetch ==
    \/ FetchSongs /\ UNCHANGED <<searchVars, cacheVars, jobVars, parseVars, playVars>>
    \/ MbcList /\ UNCHANGED <<searchVars, cacheVars, jobVars, parseVars, playVars>>
    \/ MbcView /\ UNCHANGED <<searchVars, cacheVars, jobVars, parseVars, playVars>>
    \/ KbsApi /\ UNCHANGED <<searchVars, cacheVars, jobVars, parseVars, playVars>>
    \/ BoardList /\ UNCHANGED <<searchVars, cacheVars, jobVars, parseVars, playVars>>
    \/ BoardRead /\ UNCHANGED <<searchVars, cacheVars, jobVars, parseVars, playVars>>
SpecFetch == InitFetch /\ [][NextFetch]_vars

InitCache == clock = 1 /\ CacheRest /\ SearchRest /\ FetchRest /\ JobRest /\ ParseRest /\ PlayRest
NextCache ==
    \/ Tick /\ UNCHANGED <<searchVars, fetchVars, jobVars, parseVars, playVars>>
    \/ \E w \in ReadThrough, p \in ProgCodes : Begin(w, p) /\ UNCHANGED <<searchVars, fetchVars, jobVars, parseVars, playVars>>
    \/ \E w \in {"upd", "col"}, p \in ProgCodes :
          AdminBegin(w, p) /\ UNCHANGED <<searchVars, fetchVars, jobVars, parseVars, playVars>>
    \/ \E w \in Handlers : Fetch(w) /\ UNCHANGED <<searchVars, fetchVars, jobVars, parseVars, playVars>>
    \/ \E w \in Handlers : Check(w) /\ UNCHANGED <<searchVars, fetchVars, jobVars, parseVars, playVars>>
    \/ \E w \in Handlers : Commit(w) /\ UNCHANGED <<searchVars, fetchVars, jobVars, parseVars, playVars>>
    \/ AdminClearCache /\ UNCHANGED <<searchVars, fetchVars, jobVars, parseVars, playVars>>
SpecCache == InitCache /\ [][NextCache]_vars

\* one call into the core: a search_spotify_track call or a fetch_songs call
InitCore == InitSearch \/ InitFetch
NextCore == NextSearch \/ NextFetch
SpecCore == InitCore /\ [][NextCore]_vars

InitJob ==
    /\ follows \in [JobUsers -> SeqsUpTo(FollowCodes, MaxFollows)]
    /\ client_ok \in [JobUsers -> BOOLEAN]
    /\ jobPc = "start" /\ jobUser = 1 /\ jobProg = 1 /\ session = "active"
    /\ attempts = <<>> /\ fatal = FALSE
    /\ clock = 1 /\ SearchRest /\ FetchRest /\ CacheRest /\ ParseRest /\ PlayRest
NextJob ==
    \/ JobBegin /\ UNCHANGED <<searchVars, fetchVars, cacheVars, parseVars, playVars>>
    \/ ProcessUser /\ UNCHANGED <<searchVars, fetchVars, cacheVars, parseVars, playVars>>
    \/ ProcessProgram /\ UNCHANGED <<searchVars, fetchVars, cacheVars, parseVars, playVars>>
SpecJob == InitJob /\ [][NextJob]_vars

\* the lines of a post body, as split at the line breaks (radio_scraper.py 188-191)
PostLineShapes ==
    { <<>>, <<"1.", BLANK>>,
      <<"1.", "Ta">>, <<"1.", "Ta", "3'14", "pf:", "Tb">>, <<"1.", "pf:", "Tb", "3'14">>,
      <<"1.", "Banner", "Ta">>,
      <<"Tb">>, <<"pf:", "Tb", ",", "#jihwi:", "Ta">>, <<"3'14">>, <<"3'14", "/", "3'14">>,
      <<"*", "Tb">>, <<"+", "Tb">>, <<"Banner">> }
InitParse ==
    /\ post_lines \in SeqsUpTo(PostLineShapes, MaxPostLines)
    /\ parsePc = "start" /\ parsed = <<>>
    /\ clock = 1 /\ SearchRest /\ FetchRest /\ CacheRest /\ JobRest /\ PlayRest
\* radio_scraper.py 192-195: the lines are trimmed, the empty ones dropped, and parsed
ParseBoard ==
    /\ parsePc = "start"
    /\ parsed' = parse_kbs_board_songs(HtmlLines(post_lines))
    /\ parsePc' = "done"
    /\ UNCHANGED post_lines
NextParse ==
    \/ ParseBoard /\ UNCHANGED <<searchVars, fetchVars, cacheVars, jobVars, playVars>>
SpecParse == InitParse /\ [][NextParse]_vars

\* the user's playlists before the calls, and the path of each call
InitPlaylist ==
    /\ user_playlists = {}
    /\ sp_playlists \in SeqsUpTo({PlaylistName, OtherName}, MaxPlaylists)
    /\ added_items = [r \in Runs |-> 0] /\ effects = {}
    /\ playPc = [r \in Runs |-> "start"]
    /\ \E paths \in [Runs -> Paths] : local = [r \in Runs |-> Local0(paths[r])]
    /\ clock = 1 /\ SearchRest /\ FetchRest /\ CacheRest /\ JobRest /\ ParseRest
NextPlaylist ==
    \/ \E r \in Runs : ExistingCheck(r) /\ UNCHANGED <<searchVars, fetchVars, cacheVars, jobVars, parseVars>>
    \/ \E r \in Runs : GetSongs(r) /\ UNCHANGED <<searchVars, fetchVars, cacheVars, jobVars, parseVars>>
    \/ \E r \in Runs : ListPage(r) /\ UNCHANGED <<searchVars, fetchVars, cacheVars, jobVars, parseVars>>
    \/ \E r \in Runs : CreatePlaylist(r) /\ UNCHANGED <<searchVars, fetchVars, cacheVars, jobVars, parseVars>>
    \/ \E r \in Runs : SearchSongs(r) /\ UNCHANGED <<searchVars, fetchVars, cacheVars, jobVars, parseVars>>
    \/ \E r \in Runs : AddTracks(r) /\ UNCHANGED <<searchVars, fetchVars, cacheVars, jobVars, parseVars>>
    \/ \E r \in Runs : SaveRow(r) /\ UNCHANGED <<searchVars, fetchVars, cacheVars, jobVars, parseVars>>
SpecPlaylist == InitPlaylist /\ [][NextPlaylist]_vars
(***************************************************************************)
(* Properties of search_spotify_track, checked on SpecSearch.              *)
(***************************************************************************)
Calls == 1..Len(searchCalls)
NoHit == \A i \in Calls : ~searchCalls[i].found
PcOf(t) == CASE t = 1 -> "tier1" [] t = 2 -> "tier2" [] t = 3 -> "tier3" [] t = 4 -> "tier4"

C2_GuardsOfTiers ==
    /\ \A i \in Calls :
        /\ searchCalls[i].tier \in {1, 2} => cleaned_artist # <<>>
        /\ searchCalls[i].tier = 3 => composer # NoComposer
    /\ searchPc \in {"tier1", "tier2"} => cleaned_artist # <<>>
    /\ searchPc = "tier3" => composer # NoComposer
\* an artist that cleans to nothing and no composer: only tier 4 was issued
C2_Witness ==
    /\ searchPc = "done" /\ artist # <<>> /\ cleaned_artist = <<>> /\ composer = NoComposer
    /\ Len(searchCalls) = 1 /\ searchCalls[1].tier = 4

\* the tier that follows tier t when t found nothing
NextApplicable(t) ==
    CASE t = 1 -> 2
      [] t = 2 -> IF composer # NoComposer THEN 3 ELSE 4
      [] t = 3 -> 4

\* C3: no exception leaves the call; a search that raised, answered without the
\* expected fields or found nothing is followed by the next applicable tier; when
\* the call is over and nothing was found, tier 4 was the last search and the
\* result is None.
C3_FailuresAreMisses ==
    /\ searchResult # Raised
    /\ \A i \in Calls :
        LET c == searchCalls[i]
        IN  ~c.found =>
              IF c.tier = 4 THEN searchPc = "done" /\ searchResult = NoTrack
              ELSE IF i < Len(searchCalls)
                   THEN searchCalls[i + 1].tier = NextApplicable(c.tier)
                   ELSE searchPc = PcOf(NextApplicable(c.tier))
    /\ (searchPc = "done" /\ NoHit) =>
          /\ searchCalls # <<>>
          /\ searchCalls[Len(searchCalls)].tier = 4
          /\ searchResult = NoTrack
\* all four tiers were searched, the last search raised, and None was returned
C3_Witness ==
    /\ searchPc = "done" /\ Len(searchCalls) = 4 /\ NoHit
    /\ searchAnswer.kind = "raise" /\ searchResult = NoTrack

(***************************************************************************)
(* Properties of fetch_songs, checked on SpecFetch.                        *)
(***************************************************************************)
KnownSources == {"mbc", "kbs", "kbs_board"}
UnknownSource == [kind |-> "raise", exc |-> "ValueError"]

\* C4: with a source other than mbc, kbs, kbs_board the call raises ValueError
\* and no request was issued; a request that fails in transport, status or
\* decoding ends the adapter with None; once a request was issued nothing is raised.
C4_UnknownSourceRaisesAdaptersDoNot ==
    /\ (program.source \notin KnownSources /\ fetchPc # "start") =>
          fetchPc = "done" /\ fetchResult = UnknownSource /\ requests = <<>>
    /\ response.kind \in Failures \cup {"notdict"} => fetchPc = "done" /\ fetchResult = NoSongs
    /\ requests # <<>> => fetchResult.kind # "raise"
\* the second request of an adapter (detail page or board post) failed
C4_Witness ==
    /\ fetchPc = "done" /\ Len(requests) = 2 /\ response.kind \in Failures
    /\ fetchResult = NoSongs

\* C5: whatever the program dict and the date string, a finished call has
\* returned a list, returned None, or raised the unknown-source error.
C5_OnlyUnknownSourceEscapes ==
    fetchPc = "done" => \/ fetchResult.kind \in {"songs", "none"}
                        \/ fetchResult = UnknownSource
(***************************************************************************)
(* Properties of the song cache, checked on SpecCache.                     *)
(***************************************************************************)
\* the key (p, d) holds an entry whose text parses
ValidEntry(p, d) == \E r \in RowsOf(song_cache, p, d) : json_loads(r.songs_json).ok
\* the list of that entry
StoredList(p, d) ==
    json_loads((CHOOSE r \in RowsOf(song_cache, p, d) : json_loads(r.songs_json).ok).songs_json).val
\* handler w takes the step that commits its session
Commits(w) == wpc[w] = "commit" /\ wpc'[w] = "idle"

\* C6: a call of _fetch_or_cache_songs for a key that holds a parseable entry does
\* not go on to the source adapter, and the call that ends in its first step
\* returns exactly the list of that entry without having invoked the adapter and
\* leaves the table, the key counter and every session as they were.
C6_CacheHitIsPureRead ==
    [][\A w \in ReadThrough :
         wpc[w] = "idle" =>
           /\ wpc'[w] = "fetch" => ~ValidEntry(wprog'[w], clock)
           /\ (wpc'[w] = "idle" /\ returned' # returned /\ returned'.by = w) =>
                /\ \E p \in ProgCodes :
                     /\ ValidEntry(p, clock)
                     /\ returned'.result = [kind |-> "songs", songs |-> StoredList(p, clock)]
                /\ ~returned'.fetched
                /\ song_cache' = song_cache /\ next_id' = next_id /\ wpending' = wpending
      ]_vars
\* a read-through call returned the two-song list from the cache, not the source
C6_Witness ==
    /\ returned.by \in ReadThrough /\ ~returned.fetched
    /\ returned.result = [kind |-> "songs", songs |-> ListB]

\* C7: when a handler's commit stores its list under (program, date), the cache
\* read of (program, date) right after the commit finds an entry and decodes it to
\* the same list: same length, same order, same titles and artists.
C7_CacheRoundTrip ==
    [][\A w \in Handlers :
         (/\ Commits(w) /\ wsongs[w].kind = "songs"
          /\ ApplyOps(song_cache, next_id, wpending[w]).ok) =>
            CacheLookup(song_cache', wprog[w], wtoday[w])
              = [found |-> TRUE, songs |-> wsongs[w].songs]
      ]_vars
\* the list with a quote, a backslash, a Hangul word and an empty artist was
\* fetched, stored and is in the table
C7_Witness ==
    /\ returned.fetched /\ returned.result = [kind |-> "songs", songs |-> ListB]
    /\ \E r \in song_cache : json_loads(r.songs_json) = [ok |-> TRUE, val |-> ListB,
                                                         next |-> Len(r.songs_json) + 1]

\* C8: in every reachable state the table holds at most one row per
\* (program_code, cache_date).
C8_OneEntryPerKey ==
    \A k \in Keys : Cardinality(RowsOf(song_cache, k.program_code, k.cache_date)) <= 1
\* update-cache lost the race of two inserts of one key: its commit was refused
\* while the only row ever inserted is in the table
C8_Witness ==
    /\ returned = [by |-> "upd", result |-> Http(500), fetched |-> TRUE]
    /\ next_id = 2 /\ Cardinality(song_cache) = 1

\* C9 as stated: a row whose cache_date is earlier than the current date is in
\* the table, unchanged, after every step.
C9_PastEntriesImmutable ==
    [][\A r \in song_cache : r.cache_date < clock => r \in song_cache']_vars
\* C9 amended: a row is changed only by the commit of a handler that read the
\* row's cache_date as today (the clock may have advanced since), and that commit
\* keeps the row's id and key; a row is deleted only by admin clear-cache, which
\* deletes every row, past dates included.
C9_RowsChangeOnlyUnderTheirWritersDate ==
    [][\A r \in song_cache :
         r \notin song_cache' =>
           \/ wpc' = wpc /\ song_cache' = {}
           \/ \E w \in Handlers :
                /\ Commits(w)
                /\ r.cache_date = wtoday[w]
                /\ \E q \in song_cache' : /\ q.id = r.id
                                          /\ q.program_code = r.program_code
                                          /\ q.cache_date = r.cache_date
      ]_vars
\* an entry of a past date is in the table next to the entry of today of the
\* same program: the write of today left it alone
C9_Witness ==
    \E r, q \in song_cache :
        r.cache_date < clock /\ q.cache_date = clock /\ q.program_code = r.program_code

\* C10: for every key, when a write was issued for it, the cache read of the key
\* returns the list of the write issued last.
C10_LastWriteWins ==
    \A k \in Keys :
        lastWrite[k] # <<>> =>
          CacheLookup(song_cache, k.program_code, k.cache_date)
            = [found |-> TRUE, songs |-> lastWrite[k]]
(***************************************************************************)
(* Properties of daily_create_playlists, checked on SpecJob.               *)
(***************************************************************************)
Attempted(u, i) == \E k \in 1..Len(attempts) : attempts[k].user = u /\ attempts[k].at = i

\* C11: when a run of daily_create_playlists is over, playlist creation has been
\* attempted for every configured program followed by every user whose Spotify
\* client could be created, whatever the earlier programs and users returned or
\* raised.  (Stated for the followed programs that are in the configuration.)
C11_EveryFollowedProgramAttempted ==
    jobPc = "done" =>
        \A u \in JobUsers : client_ok[u] =>
            \A i \in 1..Len(follows[u]) :
                follows[u][i] \in Configured => Attempted(u, i)
(***************************************************************************)
(* Properties of the MBC adapter, checked on SpecFetch.                    *)
(***************************************************************************)
\* the rows of a listing whose date cell holds the target date
DateRows(rows) ==
    {i \in 1..Len(rows) : rows[i].day # 0 /\ date_str.fmt = "dash" /\ rows[i].day = date_str.day}
\* the requests of the MBC adapter: the listing pages 1..k in order, k <= 4, then
\* at most one detail request, after which the adapter is over
MbcRequestShape ==
    program.source = "mbc" =>
        \E k \in 0..4 :
            /\ Len(requests) \in {k, k + 1}
            /\ \A i \in 1..k : requests[i] = [kind |-> "mbc_list", arg |-> i]
            /\ Len(requests) = k + 1 =>
                  /\ requests[k + 1] = [kind |-> "mbc_view", arg |-> seq_id]
                  /\ fetchPc = "done"
\* what the adapter does with the listing page it has just received
MbcListStep ==
    (fetchPc = "mbc_list" /\ Len(requests') = Len(requests) + 1 /\ response'.kind = "ok") =>
        LET rows == response'.rows
            D == DateRows(rows)
        IN  /\ requests'[Len(requests')] = [kind |-> "mbc_list", arg |-> page]
            /\ (D = {} /\ page < 4) =>
                  fetchPc' = "mbc_list" /\ page' = page + 1 /\ fetchResult' = fetchResult
            /\ (D = {} /\ page = 4) => fetchPc' = "done" /\ fetchResult' = NoSongs
            /\ D # {} =>
                  LET i == CHOOSE i \in D : \A j \in D : i <= j
                  IN  IF rows[i].link = "seq1"
                      THEN fetchPc' = "mbc_view" /\ seq_id' = rows[i].link
                      ELSE fetchPc' = "done" /\ fetchResult' = NoSongs

\* C12: the MBC adapter requests the listing pages 1..4 in order; on the first
\* page that has a row whose date cell contains the target date it takes the first
\* such row in document order: with a numeric seqID in its link the detail page of
\* that seqID is the only further request, otherwise the result is None at once;
\* no later row or page is looked at; without a match on pages 1..4 the result is None.
C12_FirstDateRowDecides == [][MbcListStep /\ MbcRequestShape']_vars
\* page 2 has two rows of the target date; the first has a seqID, the second has not
C12_Witness ==
    /\ fetchPc = "mbc_view" /\ page = 2 /\ response.kind = "ok"
    /\ Len(response.rows) = 2 /\ DateRows(response.rows) = {1, 2}
    /\ response.rows[1].link = "seq1" /\ response.rows[2].link = "none"
(***************************************************************************)
(* Properties of _parse_kbs_board_songs, checked on SpecParse.             *)
(***************************************************************************)
\* the lines the parser is given
Lines == HtmlLines(post_lines)
\* the position of the first instrument marker in a title text, 0 if none
MarkerAt(ft) == FirstIn({k \in 1..Len(ft) : ft[k] \in InstTok})
\* the entry lines of the inline case whose title text holds a marker after some text
InlineMarked ==
    {i \in EntryIndices(Lines) :
        LET ft == FirstTitle(Lines[i])
        IN  HasDur(ft) /\ MarkerAt(ft) > 1 /\ DropDur(Before(ft, MarkerAt(ft))) # <<>>}

\* C13: for an entry line whose title text holds a duration and, anywhere in it,
\* an instrument marker, the parser returns an entry whose title is the text
\* before the marker (as it stands, or without its durations) and whose artist is
\* the text after the marker without durations.
C13_InlineMarkerSplitsTitle ==
    parsePc = "done" =>
        \A i \in InlineMarked :
            LET ft == FirstTitle(Lines[i])
                k == MarkerAt(ft)
            IN  \E n \in 1..Len(parsed) :
                    /\ parsed[n].title \in {Strip(Before(ft, k)), DropDur(Before(ft, k))}
                    /\ parsed[n].artist = DropConductor(DropDur(After(ft, k)))

\* the block of the entry line at index i: the lines up to the next entry line,
\* without the banner lines
EntryEnd(i) ==
    LET later == {j \in EntryIndices(Lines) : j > i}
    IN  IF later = {} THEN Len(Lines) + 1 ELSE CHOOSE j \in later : \A k \in later : j <= k
Block(i) == BlockOf(Lines, i + 1, EntryEnd(i))
\* the last pure-duration line of a block and the nearest non-note line before it
LastPureDur(b) ==
    LET I == {j \in 1..Len(b) : IsPureDur(b[j])}
    IN  IF I = {} THEN 0 ELSE CHOOSE j \in I : \A k \in I : k <= j
NearestNonNote(b) ==
    LET I == {j \in 1..(LastPureDur(b) - 1) : b[j][1] # "*"}
    IN  IF I = {} THEN 0 ELSE CHOOSE j \in I : \A k \in I : k <= j
\* the entries of the block-separated case that have an artist line
Separated ==
    {i \in EntryIndices(Lines) :
        ~HasDur(FirstTitle(Lines[i])) /\ LastPureDur(Block(i)) > 1 /\ NearestNonNote(Block(i)) > 0}
\* a line without its leading instrument marker
Unmarked(l) == IF l[1] \in InstTok THEN Strip(Tail(l)) ELSE l
\* the entry the claim describes for entry line i, with the artist text given
SeparatedEntry(i, artist_text) ==
    [title  |-> FirstTitle(Lines[i]) \o TitleParts(Block(i), 1, NearestNonNote(Block(i))),
     artist |-> artist_text]
Returned(e) == \E n \in 1..Len(parsed) : parsed[n] = e
OnlyEntry(i) == EntryIndices(Lines) = {i}

\* C14 as stated: in the block-separated case the artist is the nearest non-note
\* line before the last pure-duration line, without its leading instrument
\* marker, and the title is the entry title followed by the block lines before
\* the artist line that are no '+' lines.
C14_ArtistIsUnmarkedLine ==
    parsePc = "done" =>
        \A i \in Separated :
            LET e == SeparatedEntry(i, Unmarked(Block(i)[NearestNonNote(Block(i))]))
            IN  Returned(e) /\ (OnlyEntry(i) => parsed = <<e>>)

\* C14 (amended): as above, and the artist furthermore ends before a
\* ", conductor:" suffix and loses a trailing comma.
C14_ArtistIsUnmarkedLineLessConductor ==
    parsePc = "done" =>
        \A i \in Separated :
            LET e == SeparatedEntry(i, DropConductor(Unmarked(Block(i)[NearestNonNote(Block(i))])))
            IN  Returned(e) /\ (OnlyEntry(i) => parsed = <<e>>)
\* an artist line with marker and conductor suffix, then a note line, then the duration
C14_Witness ==
    /\ parsePc = "done"
    /\ Lines = << <<"1.", "Ta">>, <<"pf:", "Tb", ",", "#jihwi:", "Ta">>, <<"*", "Tb">>, <<"3'14">> >>
    /\ parsed = <<[title |-> <<"Ta">>, artist |-> <<"Tb">>]>>

\* the text of an entry holds a token of T
Surfaces(e, T) == Has(e.title, T) \/ Has(e.artist, T)
\* a banner string occurs in un-numbered lines only
BannersUnnumbered == \A i \in EntryIndices(Lines) : ~IsBanner(Lines[i])

\* C15: no returned entry holds, in its title or its artist, the text of a
\* continuation line (a line starting with '+') or of an un-numbered banner line.
C15_NoBannerNoContinuationText ==
    parsePc = "done" =>
        \A n \in 1..Len(parsed) :
            /\ ~Surfaces(parsed[n], {"+"})
            /\ BannersUnnumbered => ~Surfaces(parsed[n], BannerTok)

\* the entry lines whose resolved title is empty: the inline case with nothing
\* before the marker or nothing but durations
EmptyTitled ==
    {i \in EntryIndices(Lines) :
        LET ft == FirstTitle(Lines[i])
        IN  HasDur(ft) /\ (MarkerAt(ft) = 1 \/ DropDur(ft) = <<>>)}
\* the entry lines of the separated case for which no artist is looked up
ArtistLess ==
    {i \in EntryIndices(Lines) :
        ~HasDur(FirstTitle(Lines[i])) /\ (Block(i) = <<>> \/ LastPureDur(Block(i)) = 1)}

EntryOf(i) == ParseEntry(Lines, i, EntryEnd(i))
\* the entry lines that yield an entry
Yielding == {i \in EntryIndices(Lines) : EntryOf(i) # <<>>}

\* C17: every entry line yields at most one entry, and the returned list is
\* the entries of the yielding entry lines, one each, in increasing order of the
\* line index.
C17_BroadcastOrder ==
    parsePc = "done" =>
        /\ \A i \in EntryIndices(Lines) : Len(EntryOf(i)) <= 1
        /\ Len(parsed) = Cardinality(Yielding)
        /\ \E f \in [1..Len(parsed) -> Yielding] :
              /\ \A m, n \in 1..Len(parsed) : m < n => f[m] < f[n]
              /\ \A n \in 1..Len(parsed) : parsed[n] = EntryOf(f[n])[1]
\* three entry lines: the second yields nothing, the others yield different entries
C17_Witness ==
    /\ parsePc = "done"
    /\ Lines = << <<"1.", "Banner", "Ta">>, <<"1.", "pf:", "Tb", "3'14">>, <<"1.", "Ta">>, <<"Tb">> >>
    /\ parsed = << [title |-> <<"Banner", "Ta">>, artist |-> <<>>],
                   [title |-> <<"Ta">>, artist |-> <<"Tb">>] >>
(***************************************************************************)
(* Properties of clean_title, checked on SpecSearch.                       *)
(***************************************************************************)
\* C18: cleaning a cleaned title changes nothing: once search_spotify_track has
\* cleaned its title argument, clean_title of the result returns the same title.
C18_CleanTitleIdempotent ==
    searchPc # "start" => clean_title(cleaned_title).title = cleaned_title
(***************************************************************************)
(* Properties of the requests of one call, checked on SpecCore.            *)
(***************************************************************************)
\* how many requests of a kind were issued
Issues(kind) == Cardinality({i \in 1..Len(requests) : requests[i].kind = kind})

\* C19: a search_spotify_track call searches each tier at most once, hence at
\* most four times; an adapter call issues no request twice: at most four
\* listing requests (of different pages) and one detail request of the table
\* listing, one request of the JSON API, one list and one read request of the
\* board; and a failed request is the last one, the call ending with None.
C19_NoRetries ==
    /\ \A i, j \in 1..Len(searchCalls) : searchCalls[i].tier = searchCalls[j].tier => i = j
    /\ Len(searchCalls) <= 4
    /\ \A i, j \in 1..Len(requests) : requests[i] = requests[j] => i = j
    /\ Issues("mbc_list") <= 4 /\ Issues("mbc_view") <= 1 /\ Issues("kbs_api") <= 1
    /\ Issues("board_list") <= 1 /\ Issues("board_read") <= 1
    /\ response.kind \in Failures => fetchPc = "done" /\ fetchResult = NoSongs
\* four listing pages were requested and then the detail request failed
C19_Witness ==
    /\ Issues("mbc_list") = 4 /\ Issues("mbc_view") = 1
    /\ response.kind \in Failures /\ fetchPc = "done"
(***************************************************************************)
(* Properties of the board adapter, checked on SpecFetch.                  *)
(***************************************************************************)
\* the posts of a list whose title contains the marker of the target date
MarkedPosts(data) ==
    {i \in 1..Len(data) : Contains(TargetMarker(date_str.day), PostTitle(data[i].day))}
\* the requests of the board adapter: the list, then at most the read of the
\* selected post
BoardRequestShape ==
    program.source = "kbs_board" =>
        \/ requests = <<>>
        \/ requests = <<[kind |-> "board_list", arg |-> 1]>>
        \/ requests = <<[kind |-> "board_list", arg |-> 1], [kind |-> "board_read", arg |-> post.day]>>
\* what the adapter does with the list it has just received
BoardListStep ==
    (fetchPc = "board_list" /\ Len(requests') = Len(requests) + 1
        /\ response'.kind = "ok" /\ date_str.fmt = "dash") =>
        LET data == response'.data
            M == MarkedPosts(data)
        IN  /\ M = {} => fetchPc' = "done" /\ fetchResult' = NoSongs /\ post' = post
            /\ M # {} =>
                  LET i == CHOOSE i \in M : \A j \in M : i <= j
                  IN  /\ post' = data[i]
                      /\ IF data[i].ids THEN fetchPc' = "board_read"
                         ELSE fetchPc' = "done" /\ fetchResult' = NoSongs

\* C20: the board adapter selects the first post, in list order, whose title
\* contains the marker "{month}M {day}D" of the target date, written without zero
\* padding; the only post ever read is that one (it is read when it carries its
\* ids); without such a post the result is None and no read request is issued.
C20_FirstMarkedPostIsRead == [][BoardListStep /\ BoardRequestShape']_vars
\* two different posts carry the marker; the first of them is about to be read
C20_Witness ==
    /\ fetchPc = "board_read" /\ response.kind = "ok" /\ Len(response.data) = 2
    /\ MarkedPosts(response.data) = {1, 2}
    /\ response.data[1] # response.data[2] /\ post = response.data[1]
(***************************************************************************)
(* Further properties of _parse_kbs_board_songs, checked on SpecParse.     *)
(***************************************************************************)
\* the entry lines of the separated case that have a block
Blocked == {i \in EntryIndices(Lines) : ~HasDur(FirstTitle(Lines[i])) /\ Block(i) # <<>>}
\* the entry line i resolves to title t and artist a
Resolves(i, t, a) ==
    LET e == [title |-> t, artist |-> a]
    IN  Returned(e) /\ (OnlyEntry(i) => parsed = <<e>>)

\* C21: for an entry line without duration and with a block: (a) when the last
\* pure-duration line is the first block line, the entry is the entry title with
\* the empty artist; (b) when the block has no pure-duration line, the artist is
\* the first block line without its leading marker and its conductor suffix, and
\* the title is the entry title alone; (c) when only note lines precede the last
\* pure-duration line, the entry is the entry title with the empty artist.
C21_SeparatedEdgeCases ==
    parsePc = "done" =>
        \A i \in Blocked :
            LET ft == FirstTitle(Lines[i])
                b == Block(i)
            IN  /\ LastPureDur(b) = 1 => Resolves(i, ft, <<>>)
                /\ LastPureDur(b) = 0 => Resolves(i, ft, DropConductor(Unmarked(b[1])))
                /\ (LastPureDur(b) > 1 /\ NearestNonNote(b) = 0) => Resolves(i, ft, <<>>)
\* no duration line: the first block line, with marker and conductor suffix, is the artist
C21_Witness ==
    /\ parsePc = "done"
    /\ Lines = << <<"1.", "Ta">>, <<"pf:", "Tb", ",", "#jihwi:", "Ta">>, <<"Tb">> >>
    /\ parsed = <<[title |-> <<"Ta">>, artist |-> <<"Tb">>]>>

\* the places where the lines can be cut in two with an entry line opening the
\* second part
Cuts == {k \in 0..(Len(Lines) - 1) : IsEntry(Lines[k + 1])}

\* C22: wherever the lines are cut before an entry line, the list returned for
\* the whole is the list for the first part followed by the list for the second.
C22_ParseOfConcatenation ==
    parsePc = "done" =>
        \A k \in Cuts :
            parsed = parse_kbs_board_songs(SubSeq(Lines, 1, k))
                     \o parse_kbs_board_songs(SubSeq(Lines, k + 1, Len(Lines)))
\* two entries with a block each, cut before the second
C22_Witness ==
    /\ parsePc = "done"
    /\ Lines = << <<"1.", "Ta">>, <<"Tb">>, <<"1.", "Banner", "Ta">>, <<"3'14">> >>
    /\ 2 \in Cuts
    /\ parsed = << [title |-> <<"Ta">>, artist |-> <<"Tb">>],
                   [title |-> <<"Banner", "Ta">>, artist |-> <<>>] >>
(***************************************************************************)
(* Properties of playlist creation, checked on SpecPlaylist.               *)
(***************************************************************************)
\* the user's playlists named playlist_name
Named == {i \in 1..Len(sp_playlists) : sp_playlists[i] = PlaylistName}
\* call r issues the create call in this step
Creates(r) == playPc[r] = "create" /\ playPc'[r] # "create"
\* call r comes back from find_or_create_playlist in this step
Found(r) == playPc[r] \in {"list", "create"} /\ playPc'[r] = "search"

\* C23: find_or_create_playlist issues a create call only when the user has no
\* playlist named playlist_name, and when there is one it returns that playlist's
\* id with is_new = False, whatever the listing requests do.
C23_CreateOnlyWhenAbsent ==
    [][\A r \in Runs :
          /\ Creates(r) => Named = {}
          /\ (Found(r) /\ Named # {}) =>
                 local'[r].playlist_id \in Named /\ ~local'[r].is_new]_vars

\* C24: over all the calls for one (user, program, date), in any order or
\* interleaving, playlist_add_items succeeds at most once.
C24_TracksAddedAtMostOnce == added_items[1] + added_items[2] <= 1

\* call r leaves the existing-record check in this step
Checked(r) == playPc[r] = "start" /\ playPc'[r] # "start"
\* C25: a call that finds a UserPlaylist row for (user, program, today) returns
\* at once, on the job's path and on the create-now path: it asks for no songs
\* (no adapter request, no cache write), makes no Spotify call and writes no row.
C25_ExistingRowNoEffects ==
    [][\A r \in Runs :
          (Checked(r) /\ user_playlists # {}) =>
              /\ playPc'[r] = "done"
              /\ UNCHANGED <<user_playlists, sp_playlists, added_items, effects, cacheVars>>]_vars
\* the daily job's call after a call of the job that succeeded: it is over without
\* having made any call
C25_Witness ==
    /\ local[1].path = "job" /\ playPc[1] = "done" /\ local[1].result = "ok"
    /\ <<1, "write">> \in effects
    /\ local[2].path = "job" /\ playPc[2] = "done" /\ local[2].result = "ok"
    /\ \A kind \in {"songs", "spotify", "write"} : <<2, kind>> \notin effects

\* C27: every stored UserPlaylist row has songs_added + songs_not_found =
\* total_songs, whatever the searches and playlist_add_items did.
C27_CountsAddUp ==
    \A row \in user_playlists : row.songs_added + row.songs_not_found = row.total_songs

\* C28: songs_added of a stored row is the number of tracks the call added to
\* the playlist: the resolved track ids when playlist_add_items succeeded, and 0
\* when it raised or was not called.
C28_AddedIsWhatWasAdded ==
    \A row \in user_playlists : row.songs_added = row.sent
(***************************************************************************)
(* Properties of the cache across days, checked on SpecCache.              *)
(***************************************************************************)
\* _fetch_or_cache_songs of handler w commits a change of the cache in this step
Stores(w) == wpc[w] = "commit" /\ wpc'[w] = "idle" /\ song_cache' # song_cache

\* C26: whenever _fetch_or_cache_songs stores an entry under (program_code,
\* target_date), the songs are those the adapter returned for that target_date,
\* also when the day changes between the caller's reading of today and the
\* adapter's reading of its default date.
C26_StoredSongsAreOfTargetDate ==
    [][\A w \in ReadThrough :
          Stores(w) => \A i \in 1..Len(wpending[w]) :
                           wpending[w][i].cache_date = wfetched[w]]_vars

\* handler w comes back from fetch_songs without songs in this step
ComesBackEmpty(w) ==
    /\ wpc[w] = "fetch" /\ wpc'[w] # "check"
    /\ wpc'[w] # wpc[w] \/ wprog'[w] # wprog[w]
\* a read-through call of w is answered from the cache in this step
AnsweredFromCache(w) ==
    wpc[w] = "idle" /\ returned' # returned /\ returned'.by = w /\ ~returned'.fetched
\* C29: when the adapter returns not found or raises, the handler leaves the
\* cache as it is (no row created or changed, nothing staged) and a read-through
\* call returns None; no stored entry ever holds an empty list, and a call is
\* answered from the cache only with a non-empty stored list, so that the next
\* call for the key goes to the adapter again.
C29_NotFoundNotCached ==
    [][/\ \A w \in Handlers :
             ComesBackEmpty(w) =>
                /\ UNCHANGED <<song_cache, next_id, wpending, lastWrite>>
                /\ w \in ReadThrough =>
                       returned' = [by |-> w, result |-> NoSongs, fetched |-> TRUE]
       /\ \A w \in ReadThrough :
             /\ AnsweredFromCache(w) =>
                   returned'.result.kind = "songs" /\ returned'.result.songs # <<>>
             /\ (wpc[w] = "idle" /\ wpc'[w] = "fetch") => ~ValidEntry(wprog'[w], clock)
       /\ \A row \in song_cache' :
             json_loads(row.songs_json).ok => json_loads(row.songs_json).val # <<>>]_vars
\* the job's call came back from the adapter with nothing, the cache is empty,
\* and the job's next call is at the adapter again
C29_Witness ==
    /\ returned = [by |-> "job", result |-> NoSongs, fetched |-> TRUE]
    /\ song_cache = {} /\ wpc["job"] = "fetch"
(***************************************************************************)
(* The day of the post the board adapter reads, checked on SpecFetch.      *)
(***************************************************************************)
\* C30: the post whose body the board adapter reads has a title whose month and
\* day are the month and day of the target date.
C30_ReadPostIsOfTargetDay ==
    \A i \in 1..Len(requests) :
        requests[i].kind = "board_read" =>
            /\ requests[i].arg # 0
            /\ Calendar[requests[i].arg] = Calendar[date_str.day]
====
